---- MODULE Spec2Model ----
(***************************************************************************)
(* Model of the agent execution core of agentarea_agents_sdk:              *)
(*   agents/stateful_agent.py   StatefulAgent._execute_agent_loop          *)
(*   middleware/base.py         MiddlewareStack                            *)
(*   middleware/todolist.py     TodoListMiddleware                         *)
(*   middleware/filesystem.py   FilesystemMiddleware                       *)
(*   middleware/subagents.py    SubAgentMiddleware, TaskTool               *)
(*   middleware/summarization.py SummarizationMiddleware                   *)
(* One agent instance with its state container is modelled.  The language  *)
(* model and the tool executor are external: what they return is chosen    *)
(* nondeterministically from small sets.                                   *)
(***************************************************************************)
EXTENDS Integers, Sequences, FiniteSets, TLC

(* ------------------------------ bounds -------------------------------- *)
MaxM == 2          \* largest max_iterations tried
MaxStack == 3      \* longest caller-supplied middleware list handed to a MiddlewareStack
MaxHooks == 2      \* hook invocations made on one MiddlewareStack
MaxRuns == 2       \* run/run_stream calls made on the one agent
MaxCalls == 2      \* tool calls in one assistant turn
MaxToolCalls == 2  \* tool calls emitted over the agent's lifetime
MaxTurns == 3      \* model calls made over the agent's lifetime
MaxKeep == 1       \* largest messages_to_keep tried

(* --------------------- sizes of message contents ---------------------- *)
\* count_tokens_approx is len(text) // 4; a message carries that quotient.
PromptTok == 1
TaskTok == 1
TextTok == 2
ToolCallTok == 1
ToolTurnTok == 1
DigestTok == 1
LowCeiling == 1
HighCeiling == 50

(* --------------------------- the pipeline ----------------------------- *)
\* default_middlewares in construction order
Pipeline == <<"todolist", "filesystem", "subagents", "summarization">>

\* the four followed by a middleware of the caller that vetoes completion calls
GuardedPipeline == Pipeline \o <<"completion_guard">>

NoPath == [kind |-> "none", id |-> 0]
ArgPath == [kind |-> "arg", id |-> 0]

LargePath(id) == [kind |-> "large", id |-> id]

(* ------------------- arguments the model may emit --------------------- *)
\* parse: "bad" is a string json.loads rejects, "map" parses to a mapping.
ArgsBad == [parse |-> "bad", hasTodos |-> FALSE, todos |-> <<>>,
            subagent_type |-> "none", file |-> FALSE]
ArgsPlain == [parse |-> "map", hasTodos |-> FALSE, todos |-> <<>>,
              subagent_type |-> "none", file |-> FALSE]
ArgsTodosEmpty == [parse |-> "map", hasTodos |-> TRUE, todos |-> <<>>,
                   subagent_type |-> "none", file |-> FALSE]
ArgsTodosNew == [parse |-> "map", hasTodos |-> TRUE,
                 todos |-> <<[id |-> 0, status |-> "pending", content |-> TRUE],
                             [id |-> 0, status |-> "in_progress", content |-> TRUE]>>,
                 subagent_type |-> "none", file |-> FALSE]
\* one entry carrying the identifier of the first task created
ArgsTodosUpdate == [parse |-> "map", hasTodos |-> TRUE,
                    todos |-> <<[id |-> 1, status |-> "completed", content |-> TRUE]>>,
                    subagent_type |-> "none", file |-> FALSE]
\* two entries carrying the same identifier
ArgsTodosSameId == [parse |-> "map", hasTodos |-> TRUE,
                    todos |-> <<[id |-> 1, status |-> "in_progress", content |-> TRUE],
                                [id |-> 1, status |-> "pending", content |-> TRUE]>>,
                    subagent_type |-> "none", file |-> FALSE]
\* an entry whose status is not a value of the schema's enum
ArgsTodosOffEnum == [parse |-> "map", hasTodos |-> TRUE,
                     todos |-> <<[id |-> 0, status |-> "blocked", content |-> TRUE]>>,
                     subagent_type |-> "none", file |-> FALSE]
\* an entry without a "content" key
ArgsTodosMalformed == [parse |-> "map", hasTodos |-> TRUE,
                 todos |-> <<[id |-> 0, status |-> "pending", content |-> FALSE]>>,
                 subagent_type |-> "none", file |-> FALSE]
ArgsFile == [parse |-> "map", hasTodos |-> FALSE, todos |-> <<>>,
             subagent_type |-> "none", file |-> TRUE]

ArgsTask(t) == [parse |-> "map", hasTodos |-> FALSE, todos |-> <<>>,
                subagent_type |-> t, file |-> FALSE]

\* what the model may ask for, by scenario
PlanMenu ==
  { [name |-> "write_todos", args |-> ArgsTodosEmpty],
    [name |-> "write_todos", args |-> ArgsTodosNew],
    [name |-> "task", args |-> ArgsTask("general-purpose")],
    [name |-> "completion", args |-> ArgsPlain] }

ErrorMenu ==
  { [name |-> "completion", args |-> ArgsBad],
    [name |-> "completion", args |-> ArgsPlain],
    [name |-> "search", args |-> ArgsPlain],
    [name |-> "write_todos", args |-> ArgsTodosMalformed] }

FileMenu ==
  { [name |-> "write_file", args |-> ArgsFile],
    [name |-> "search", args |-> ArgsPlain],
    [name |-> "task", args |-> ArgsTask("nope")],
    [name |-> "write_todos", args |-> ArgsPlain] }

\* a plan, then delegations to a valid, a custom and an unknown type
DelegateMenu ==
  { [name |-> "write_todos", args |-> ArgsTodosNew],
    [name |-> "task", args |-> ArgsTask("general-purpose")],
    [name |-> "task", args |-> ArgsTask("researcher")],
    [name |-> "task", args |-> ArgsTask("nope")] }

\* the menu run under a low summarization ceiling
SumMenu ==
  { [name |-> "search", args |-> ArgsBad],
    [name |-> "completion", args |-> ArgsPlain] }

TodoMenu ==
  { [name |-> "write_todos", args |-> ArgsTodosNew],
    [name |-> "write_todos", args |-> ArgsTodosUpdate],
    [name |-> "write_todos", args |-> ArgsTodosSameId],
    [name |-> "write_todos", args |-> ArgsTodosOffEnum] }

\* the menu run under the pipeline that vetoes completion calls
VetoMenu ==
  { [name |-> "completion", args |-> ArgsPlain],
    [name |-> "completion", args |-> ArgsBad] }

Menus == {PlanMenu, ErrorMenu, FileMenu, SumMenu, DelegateMenu, TodoMenu, VetoMenu}

\* tool calls the model may emit over the agent's lifetime; the delegation
\* scenario needs the plan and two delegations
CallBudget(menu) ==
  IF menu = DelegateMenu THEN MaxToolCalls + 1 ELSE MaxToolCalls

\* run/run_stream calls made on the agent: repeated runs are exercised in
\* the summarization and the planning scenario
RunBudget(menu) == IF menu \in {SumMenu, PlanMenu} THEN MaxRuns ELSE 1

(* ------------------------------ results ------------------------------- *)
\* type: "dict" or "str"; hasResult: the dict has a "result" key;
\* success: "true", "false" or "none" (no such key); big: a str longer
\* than the eviction threshold.
Res(type, tag, success, hasResult, big) ==
  [type |-> type, tag |-> tag, success |-> success,
   hasResult |-> hasResult, big |-> big]

NoResult == Res("none", "none", "none", FALSE, FALSE)
DefaultSkipResult == Res("dict", "default", "true", FALSE, FALSE)
EmptyTodosRefusal == Res("dict", "empty_todos", "false", FALSE, FALSE)
TodosRecorded == Res("dict", "todos_summary", "true", TRUE, FALSE)
PlanningRefusal == Res("dict", "planning_required", "false", FALSE, FALSE)
EvictionNotice == Res("dict", "evicted", "none", FALSE, FALSE)
EnvelopeOk == Res("dict", "sub_result", "true", TRUE, FALSE)
EnvelopeFail == Res("dict", "sub_failed", "false", FALSE, FALSE)
ToolDict == Res("dict", "tool_dict", "true", TRUE, FALSE)
ToolStrSmall == Res("str", "tool_text", "none", FALSE, FALSE)
ToolStrBig == Res("str", "tool_text", "none", FALSE, TRUE)
Raised == Res("raise", "raise", "none", FALSE, FALSE)

NoTc == [id |-> 0, name |-> "none", args |-> ArgsPlain,
         skip |-> FALSE, hasResult |-> FALSE, result |-> NoResult]

(* ------------------------------ messages ------------------------------ *)
Msg(role, content, id, calls, tok) ==
  [role |-> role, content |-> content, tool_call_id |-> id,
   calls |-> calls, tok |-> tok]

SystemPrompt == Msg("system", "prompt", 0, <<>>, PromptTok)

UserTurn == Msg("user", "task", 0, <<>>, TaskTok)

ToolTurn(id, content) == Msg("tool", content, id, <<>>, ToolTurnTok)

VARIABLES
  cfg,           \* constructor arguments: max_iterations, keep_last, max_tokens
  state,         \* self.state._data
  pc,            \* position of the loop
  iteration,     \* the local counter of _execute_agent_loop
  done,          \* the local flag of _execute_agent_loop
  calls,         \* final_tool_calls of the current assistant turn
  ci,            \* index of the tool call being processed
  tc,            \* tool_call_dict of the call being processed
  result,        \* result of the call being processed
  runs,          \* run/run_stream calls started
  outcome,       \* how the last run ended
  modelCalls,    \* model calls made in the current run
  turns,         \* model calls made over the agent's lifetime
  nextId,        \* tool-call ids handed out by the model
  task_service,  \* TodoListMiddleware.task_service
  compiled,      \* SubAgentMiddleware._compiled_agents (its keys)
  constructed,   \* sub-agent instances ever constructed
  subRuns,       \* nested agent.run calls made
  subMessages,   \* sub-agent type -> transcript held by its instance
  response_stream, \* chunks of the model response being consumed
  execs,         \* tool-call id -> number of execute_tool calls for it
  yielded,       \* values the generator yields in this run: in its streaming and in its blocking form
  longTexts,     \* ids of the calls whose execution returned a text above the threshold
  askedCompletion, \* the model requested the completion tool in this run
  trace          \* events of the current iteration, in order

vars == <<cfg, state, pc, iteration, done, calls, ci, tc, result, runs,
          outcome, modelCalls, turns, nextId, task_service, compiled, constructed,
          subRuns, subMessages, response_stream, execs, longTexts, yielded, askedCompletion, trace>>

\* self.middlewares of the agent: the stack built on the caller's list
AgentMiddlewares == cfg.middlewares

(* ------------------------- the state container ------------------------ *)
\* keys: the keys present in the dict; a field of an absent key holds the
\* default the readers pass to state.get.
EmptyState ==
  [keys |-> {}, messages |-> <<>>, iteration |-> 0, initialized |-> FALSE,
   todos |-> <<>>, files |-> {}, summarization_count |-> 0,
   test |-> "none", seen |-> [test |-> "none", arg |-> "none"]]

Put(s, key, val) ==
  [[s EXCEPT ![key] = val] EXCEPT !.keys = s.keys \cup {key}]

Ev(ev, mw, call) == [ev |-> ev, mw |-> mw, call |-> call]

\* dict.update(updates): an update is a record of the state's shape whose
\* keys field names the keys it carries.
NoUpdate == EmptyState

\* the setdefault reading of the merge: a key already present keeps its value
Merge_KeepsOld(s, u) ==
  [k \in DOMAIN s |->
     IF k = "keys" THEN s.keys \cup u.keys
     ELSE IF k \in u.keys /\ k \notin s.keys THEN u[k] ELSE s[k]]

Merge(s, u) ==
  [k \in DOMAIN s |->
     IF k = "keys" THEN s.keys \cup u.keys
     ELSE IF k \in u.keys THEN u[k] ELSE s[k]]

\* the assignment files[path] = content left out
FilesPut_Dropped(f, path, content) == f

\* the files update holds the new entry alone
FilesPut_Replaces(f, path, content) == {[path |-> path, content |-> content]}

FilesPut(f, path, content) ==
  {e \in f : e.path # path} \cup {[path |-> path, content |-> content]}

(* ------------------------- the task tracker --------------------------- *)
NewTaskService == [next |-> 1, tasks |-> {}]

\* the identifier counter not advanced
Create_StaleId(svc) ==
  [next |-> svc.next,
   tasks |-> svc.tasks \cup {[id |-> svc.next, status |-> "pending"]}]

\* InMemoryTaskService.create: a task with a fresh identifier
Create(svc) ==
  [next |-> svc.next + 1,
   tasks |-> svc.tasks \cup {[id |-> svc.next, status |-> "pending"]}]

\* the values of the TaskStatus enum
TaskStatus == {"pending", "in_progress", "completed"}

\* the tracker left as it was
SetStatus_NoOp(svc, id, status) == svc

\* InMemoryTaskService.set_status; an unknown identifier changes nothing
SetStatus(svc, id, status) ==
  [svc EXCEPT !.tasks =
     {IF t.id = id THEN [t EXCEPT !.status = status] ELSE t : t \in svc.tasks}]

(* ------------------------ TodoListMiddleware -------------------------- *)
\* the loop over todos: entries with an id update the tracker (the
\* ValueError of TaskStatus(...) for an unknown status is swallowed),
\* entries without one create a task and get its id; an entry without
\* content raises KeyError when its task is created
RECURSIVE SyncTodos(_, _, _)
SyncTodos(todos, k, svc) ==
  IF k > Len(todos) THEN [todos |-> todos, svc |-> svc, raised |-> FALSE]
  ELSE IF todos[k].id # 0
       THEN SyncTodos(todos, k + 1,
                      IF todos[k].status \in TaskStatus
                      THEN SetStatus(svc, todos[k].id, todos[k].status)
                      ELSE svc)
       ELSE IF ~todos[k].content
            THEN [todos |-> todos, svc |-> svc, raised |-> TRUE]
            ELSE SyncTodos([todos EXCEPT ![k].id = svc.next], k + 1, Create(svc))

\* the empty-list check left out
TodoListBeforeTool_NoValidation(t, s, svc) ==
  IF t.name = "write_todos"
  THEN LET todos == IF t.args.hasTodos THEN t.args.todos ELSE <<>>
           r == SyncTodos(todos, 1, svc)
       IN IF r.raised
          THEN [tc |-> t, upd |-> NoUpdate, svc |-> r.svc, raised |-> TRUE]
          ELSE [tc |-> [t EXCEPT !.skip = TRUE, !.hasResult = TRUE,
                                 !.result = TodosRecorded],
                upd |-> [NoUpdate EXCEPT !.keys = {"todos"},
                                         !.todos = r.todos],
                svc |-> r.svc, raised |-> FALSE]
  ELSE [tc |-> t, upd |-> NoUpdate, svc |-> svc, raised |-> FALSE]

\* an empty list is refused and recorded all the same
TodoListBeforeTool_ClearsOnEmpty(t, s, svc) ==
  IF t.name = "write_todos"
  THEN LET todos == IF t.args.hasTodos THEN t.args.todos ELSE <<>>
       IN IF todos = <<>>
          THEN [tc |-> [t EXCEPT !.skip = TRUE, !.hasResult = TRUE,
                                 !.result = EmptyTodosRefusal],
                upd |-> [NoUpdate EXCEPT !.keys = {"todos"}, !.todos = <<>>],
                svc |-> svc, raised |-> FALSE]
          ELSE LET r == SyncTodos(todos, 1, svc)
                   bad == r.raised \/ \E i \in 1..Len(todos) : ~todos[i].content
               IN IF bad
                  THEN [tc |-> t, upd |-> NoUpdate, svc |-> r.svc, raised |-> TRUE]
                  ELSE [tc |-> [t EXCEPT !.skip = TRUE, !.hasResult = TRUE,
                                         !.result = TodosRecorded],
                        upd |-> [NoUpdate EXCEPT !.keys = {"todos"},
                                                 !.todos = r.todos],
                        svc |-> r.svc, raised |-> FALSE]
  ELSE [tc |-> t, upd |-> NoUpdate, svc |-> svc, raised |-> FALSE]

TodoListBeforeTool(t, s, svc) ==
  IF t.name = "write_todos"
  THEN LET todos == IF t.args.hasTodos THEN t.args.todos ELSE <<>>
       IN IF todos = <<>>
          THEN [tc |-> [t EXCEPT !.skip = TRUE, !.hasResult = TRUE,
                                 !.result = EmptyTodosRefusal],
                upd |-> NoUpdate, svc |-> svc, raised |-> FALSE]
          ELSE LET r == SyncTodos(todos, 1, svc)
                   bad == r.raised \/ \E i \in 1..Len(todos) : ~todos[i].content
               IN IF bad
                  THEN [tc |-> t, upd |-> NoUpdate, svc |-> r.svc, raised |-> TRUE]
                  ELSE [tc |-> [t EXCEPT !.skip = TRUE, !.hasResult = TRUE,
                                         !.result = TodosRecorded],
                        upd |-> [NoUpdate EXCEPT !.keys = {"todos"},
                                                 !.todos = r.todos],
                        svc |-> r.svc, raised |-> FALSE]
  ELSE [tc |-> t, upd |-> NoUpdate, svc |-> svc, raised |-> FALSE]

(* ------------------------ SubAgentMiddleware -------------------------- *)
\* the gate left out
SubAgentBeforeTool_NoGate(t, s, svc) ==
  [tc |-> t, upd |-> NoUpdate, svc |-> svc, raised |-> FALSE]

SubAgentBeforeTool(t, s, svc) ==
  IF t.name = "task" /\ s.todos = <<>>
  THEN [tc |-> [t EXCEPT !.skip = TRUE, !.hasResult = TRUE,
                         !.result = PlanningRefusal],
        upd |-> NoUpdate, svc |-> svc, raised |-> FALSE]
  ELSE [tc |-> t, upd |-> NoUpdate, svc |-> svc, raised |-> FALSE]

\* a middleware of the caller: a completion call is marked skipped, with
\* {"success": False, "error": ...} as its _result; no update
GuardRefusal == Res("dict", "guard_refusal", "false", FALSE, FALSE)

CompletionGuardBeforeTool(t, s, svc) ==
  [tc |-> IF t.name = "completion"
          THEN [t EXCEPT !.skip = TRUE, !.hasResult = TRUE, !.result = GuardRefusal]
          ELSE t,
   upd |-> NoUpdate, svc |-> svc, raised |-> FALSE]

\* FilesystemMiddleware and SummarizationMiddleware return (tool_call, None)
PassBeforeTool(t, s, svc) ==
  [tc |-> t, upd |-> NoUpdate, svc |-> svc, raised |-> FALSE]

BeforeToolHook(mw, t, s, svc) ==
  CASE mw = "todolist" -> TodoListBeforeTool(t, s, svc)
    [] mw = "subagents" -> SubAgentBeforeTool(t, s, svc)
    [] mw = "completion_guard" -> CompletionGuardBeforeTool(t, s, svc)
    [] OTHER -> PassBeforeTool(t, s, svc)

(* ---------------------- caller-supplied middleware -------------------- *)
\* Middleware is a Protocol: any object with the four hooks can be put in
\* the list.  Four such objects: two that return an update for the key
\* "test" and replace the threaded value by one of their own, one that
\* returns under "seen" what it was passed, and one whose hooks raise.
Mocks == {"mock_a", "mock_b", "mock_reader", "mock_raise"}

MockWrites(mw) == mw \in {"mock_a", "mock_b"}

MockResult(mw) == Res("dict", mw, "true", TRUE, FALSE)

\* the updates a mock returns from any of its hooks; arg is the tag of the
\* threaded value it was passed ("none" for the two model-call hooks)
MockUpdates(mw, s, arg) ==
  CASE MockWrites(mw) -> [NoUpdate EXCEPT !.keys = {"test"}, !.test = mw]
    [] mw = "mock_reader" ->
         [NoUpdate EXCEPT !.keys = {"seen"},
                          !.seen = [test |-> s.test, arg |-> arg]]
    [] OTHER -> NoUpdate

ArgOf(t) == IF t.hasResult THEN t.result.tag ELSE "none"

MockBeforeTool(mw, t, s, svc) ==
  [tc |-> IF MockWrites(mw)
          THEN [t EXCEPT !.skip = TRUE, !.hasResult = TRUE, !.result = MockResult(mw)]
          ELSE t,
   upd |-> MockUpdates(mw, s, ArgOf(t)), svc |-> svc, raised |-> mw = "mock_raise"]

MockAfterTool(mw, t, res, s) ==
  [result |-> IF MockWrites(mw) THEN MockResult(mw) ELSE res,
   upd |-> MockUpdates(mw, s, res.tag), raised |-> mw = "mock_raise"]

MockLLM(mw, s) ==
  [upd |-> MockUpdates(mw, s, "none"), raised |-> mw = "mock_raise"]

\* MiddlewareStack.run_before_tool: each middleware in list order, its
\* updates applied before the next one runs; an exception ends the chain
RECURSIVE run_before_tool(_, _, _, _, _, _)
run_before_tool(mws, k, t, s, svc, evs) ==
  IF k > Len(mws)
  THEN [tc |-> t, state |-> s, svc |-> svc, raised |-> FALSE, evs |-> evs]
  ELSE LET r == IF mws[k] \in Mocks THEN MockBeforeTool(mws[k], t, s, svc)
                ELSE BeforeToolHook(mws[k], t, s, svc)
           e == Append(evs, Ev("before_tool", mws[k], t.id))
       IN IF r.raised
          THEN [tc |-> r.tc, state |-> s, svc |-> r.svc, raised |-> TRUE, evs |-> e]
          ELSE run_before_tool(mws, k + 1, r.tc, Merge(s, r.upd), r.svc, e)

\* the stack of the agent
RunBeforeTool(k, t, s, svc, evs) ==
  run_before_tool(AgentMiddlewares, k, t, s, svc, evs)

(* ------------------------ FilesystemMiddleware ------------------------ *)
FilesystemBeforeLLM(s) ==
  IF "files" \notin s.keys THEN [NoUpdate EXCEPT !.keys = {"files"}, !.files = {}]
  ELSE NoUpdate

\* rule 1 applied to every str result, whatever its length
FilesystemAfterTool_EvictsAnyText(t, res, s) ==
  IF res.type = "str"
  THEN [result |-> EvictionNotice,
        upd |-> [NoUpdate EXCEPT !.keys = {"files"},
                   !.files = FilesPut(s.files, LargePath(t.id), res.tag)]]
  ELSE IF t.name = "write_file" /\ t.args.file
       THEN [result |-> res,
             upd |-> [NoUpdate EXCEPT !.keys = {"files"},
                        !.files = FilesPut(s.files, ArgPath, "written")]]
       ELSE [result |-> res, upd |-> NoUpdate]

\* rule 2 applied after rule 1 as well
FilesystemAfterTool_BothRules(t, res, s) ==
  LET f1 == IF res.type = "str" /\ res.big
            THEN FilesPut(s.files, LargePath(t.id), res.tag) ELSE s.files
      f2 == IF t.name = "write_file" /\ t.args.file
            THEN FilesPut(f1, ArgPath, "written") ELSE f1
  IN [result |-> IF res.type = "str" /\ res.big THEN EvictionNotice ELSE res,
      upd |-> IF f2 = s.files THEN NoUpdate
              ELSE [NoUpdate EXCEPT !.keys = {"files"}, !.files = f2]]

\* rule 1: a str result longer than the threshold is stored and replaced
\* by the notice; rule 2: write_file/save_file with path and content
FilesystemAfterTool(t, res, s) ==
  IF res.type = "str" /\ res.big
  THEN [result |-> EvictionNotice,
        upd |-> [NoUpdate EXCEPT !.keys = {"files"},
                   !.files = FilesPut(s.files, LargePath(t.id), res.tag)]]
  ELSE IF t.name = "write_file" /\ t.args.file
       THEN [result |-> res,
             upd |-> [NoUpdate EXCEPT !.keys = {"files"},
                        !.files = FilesPut(s.files, ArgPath, "written")]]
       ELSE [result |-> res, upd |-> NoUpdate]

AfterToolHook(mw, t, res, s) ==
  IF mw = "filesystem" THEN FilesystemAfterTool(t, res, s)
  ELSE [result |-> res, upd |-> NoUpdate]

\* MiddlewareStack.run_after_tool
RECURSIVE run_after_tool(_, _, _, _, _, _)
run_after_tool(mws, k, t, res, s, evs) ==
  IF k > Len(mws) THEN [result |-> res, state |-> s, raised |-> FALSE, evs |-> evs]
  ELSE LET r == IF mws[k] \in Mocks THEN MockAfterTool(mws[k], t, res, s)
                ELSE [result |-> AfterToolHook(mws[k], t, res, s).result,
                      upd |-> AfterToolHook(mws[k], t, res, s).upd,
                      raised |-> FALSE]
           e == Append(evs, Ev("after_tool", mws[k], t.id))
       IN IF r.raised
          THEN [result |-> res, state |-> s, raised |-> TRUE, evs |-> e]
          ELSE run_after_tool(mws, k + 1, t, r.result, Merge(s, r.upd), e)

RunAfterTool(k, t, res, s, evs) ==
  run_after_tool(AgentMiddlewares, k, t, res, s, evs)

(* ---------------------- SummarizationMiddleware ----------------------- *)
RECURSIVE count_messages_tokens(_)
count_messages_tokens(msgs) ==
  IF msgs = <<>> THEN 0
  ELSE Head(msgs).tok + Len(Head(msgs).calls) * ToolCallTok
       + count_messages_tokens(Tail(msgs))

\* messages[-k:] and messages[:-k] as Python slices them (k >= 0)
SliceLast(msgs, k) ==
  IF k = 0 \/ k >= Len(msgs) THEN msgs
  ELSE SubSeq(msgs, Len(msgs) - k + 1, Len(msgs))

SliceButLast(msgs, k) ==
  IF k = 0 \/ k >= Len(msgs) THEN <<>>
  ELSE SubSeq(msgs, 1, Len(msgs) - k)

\* the fallback of a failed generation: "<role>: <content[:200]>" for each
\* of old[:20].  The two limits are scaled to the transcripts explored; a
\* part names the message's role and content and the number of leading
\* characters of the content that are kept.
FallbackMessages == 2
FallbackChars == 200

\* every old message is listed
FallbackSummary_AllMessages(old) ==
  [k \in 1..Len(old) |->
     [role |-> old[k].role, content |-> old[k].content, chars |-> FallbackChars]]

FallbackSummary(old) ==
  [k \in 1..(IF Len(old) < FallbackMessages THEN Len(old) ELSE FallbackMessages) |->
     [role |-> old[k].role, content |-> old[k].content, chars |-> FallbackChars]]

\* the summary text of a pass
SummaryText(genOk, old) ==
  IF genOk THEN <<[role |-> "summarizer", content |-> "digest", chars |-> 0]>>
  ELSE FallbackSummary(old)

Digest(genOk) ==
  Msg("system", IF genOk THEN "digest" ELSE "truncated_digest", 0, <<>>, DigestTok)

\* the counter left as it was
SummarizationBeforeLLM_NoCount(s, c, genOk) ==
  LET all == s.messages
      hasSys == all # <<>> /\ all[1].role = "system"
      rest == IF hasSys THEN Tail(all) ELSE all
      recent == SliceLast(rest, c.keep_last)
  IN IF Len(all) <= c.keep_last + 1 THEN NoUpdate
     ELSE IF count_messages_tokens(all) <= c.max_tokens THEN NoUpdate
     ELSE IF Len(rest) <= c.keep_last THEN NoUpdate
     ELSE [NoUpdate EXCEPT
             !.keys = {"messages", "summarization_count"},
             !.messages = (IF hasSys THEN <<all[1]>> ELSE <<>>)
                          \o <<Digest(genOk)>> \o recent,
             !.summarization_count = s.summarization_count]

\* the length check of line 125 left out
SummarizationBeforeLLM_NoLengthCheck(s, c, genOk) ==
  LET all == s.messages
      hasSys == all # <<>> /\ all[1].role = "system"
      rest == IF hasSys THEN Tail(all) ELSE all
      recent == SliceLast(rest, c.keep_last)
  IN IF count_messages_tokens(all) <= c.max_tokens THEN NoUpdate
     ELSE [NoUpdate EXCEPT
             !.keys = {"messages", "summarization_count"},
             !.messages = (IF hasSys THEN <<all[1]>> ELSE <<>>)
                          \o <<Digest(genOk)>> \o recent,
             !.summarization_count = s.summarization_count + 1]

\* genOk: whether _generate_summary returned (otherwise the fallback runs)
SummarizationBeforeLLM(s, c, genOk) ==
  LET all == s.messages
      hasSys == all # <<>> /\ all[1].role = "system"
      rest == IF hasSys THEN Tail(all) ELSE all
      recent == SliceLast(rest, c.keep_last)
  IN IF Len(all) <= c.keep_last + 1 THEN NoUpdate
     ELSE IF count_messages_tokens(all) <= c.max_tokens THEN NoUpdate
     ELSE IF Len(rest) <= c.keep_last THEN NoUpdate
     ELSE [NoUpdate EXCEPT
             !.keys = {"messages", "summarization_count"},
             !.messages = (IF hasSys THEN <<all[1]>> ELSE <<>>)
                          \o <<Digest(genOk)>> \o recent,
             !.summarization_count = s.summarization_count + 1]

BeforeLLMHook(mw, s, c, genOk) ==
  CASE mw = "filesystem" -> FilesystemBeforeLLM(s)
    [] mw = "summarization" -> SummarizationBeforeLLM(s, c, genOk)
    [] OTHER -> NoUpdate

\* MiddlewareStack.run_before_llm
RECURSIVE run_before_llm(_, _, _, _, _, _)
run_before_llm(mws, k, s, c, genOk, evs) ==
  IF k > Len(mws) THEN [state |-> s, raised |-> FALSE, evs |-> evs]
  ELSE LET r == IF mws[k] \in Mocks THEN MockLLM(mws[k], s)
                ELSE [upd |-> BeforeLLMHook(mws[k], s, c, genOk), raised |-> FALSE]
           e == Append(evs, Ev("before_llm", mws[k], 0))
       IN IF r.raised THEN [state |-> s, raised |-> TRUE, evs |-> e]
          ELSE run_before_llm(mws, k + 1, Merge(s, r.upd), c, genOk, e)

RunBeforeLLM(k, s, c, genOk, evs) ==
  run_before_llm(AgentMiddlewares, k, s, c, genOk, evs)

\* MiddlewareStack.run_after_llm: every built-in after_llm_call returns None
RECURSIVE run_after_llm(_, _, _, _)
run_after_llm(mws, k, s, evs) ==
  IF k > Len(mws) THEN [state |-> s, raised |-> FALSE, evs |-> evs]
  ELSE LET r == IF mws[k] \in Mocks THEN MockLLM(mws[k], s)
                ELSE [upd |-> NoUpdate, raised |-> FALSE]
           e == Append(evs, Ev("after_llm", mws[k], 0))
       IN IF r.raised THEN [state |-> s, raised |-> TRUE, evs |-> e]
          ELSE run_after_llm(mws, k + 1, Merge(s, r.upd), e)

RunAfterLLM(k, s, evs) == run_after_llm(AgentMiddlewares, k, s, evs)

(* ---------------------------- construction --------------------------- *)
\* the keyword parameters of SubAgentMiddleware.__init__
SubAgentParameters ==
  {"default_agent_class", "default_agent_kwargs", "subagents",
   "general_purpose_agent", "system_prompt"}

\* the keywords StatefulAgent.__init__ passes to SubAgentMiddleware
SubAgentKeywords ==
  {"default_agent_class", "default_agent_kwargs", "subagents",
   "general_purpose_agent", "parent_tools"}

\* a call with a keyword the signature does not have raises TypeError
SubAgentMiddlewareInit(keywords) == [raised |-> ~(keywords \subseteq SubAgentParameters)]

\* the enable_* arguments of StatefulAgent.__init__
FlagNames ==
  {"enable_default_middleware", "enable_todolist", "enable_filesystem",
   "enable_subagents", "enable_summarization"}

Flags == [FlagNames -> BOOLEAN]

\* StatefulAgent.__init__: the default middleware in construction order,
\* followed by the caller's; an exception of a middleware constructor
\* leaves __init__
StatefulAgentInit(f, middlewares) ==
  LET on(flag, name) == IF f.enable_default_middleware /\ flag THEN <<name>> ELSE <<>>
      default_middlewares ==
        on(f.enable_todolist, "todolist") \o on(f.enable_filesystem, "filesystem")
          \o on(f.enable_subagents, "subagents")
          \o on(f.enable_summarization, "summarization")
  IN IF f.enable_default_middleware /\ f.enable_subagents
          /\ SubAgentMiddlewareInit(SubAgentKeywords).raised
     THEN [raised |-> TRUE, middlewares |-> <<>>]
     ELSE [raised |-> FALSE, middlewares |-> default_middlewares \o middlewares]

\* subagent_middleware: the middleware every sub-agent is given
subagent_middleware == <<"todolist", "filesystem", "summarization">>

\* with the delegation middleware among them
DefaultAgentKwargs_Recursive ==
  [middlewares |-> <<"todolist", "filesystem", "subagents", "summarization">>,
   enable_default_middleware |-> FALSE, include_default_tools |-> TRUE,
   tools |-> {}]

\* default_agent_kwargs, the arguments a sub-agent is constructed with
\* (tools: the tools argument of the parent, none here)
DefaultAgentKwargs ==
  [middlewares |-> subagent_middleware,
   enable_default_middleware |-> FALSE, include_default_tools |-> TRUE,
   tools |-> {}]

\* the middleware of the agent StatefulAgent(**kwargs) constructs
MiddlewaresOf(kwargs) ==
  StatefulAgentInit([f \in FlagNames |->
                       IF f = "enable_default_middleware"
                       THEN kwargs.enable_default_middleware ELSE TRUE],
                    kwargs.middlewares).middlewares

\* the names in the tool registry of that agent: the default tools, the
\* tools argument and what the get_tools of its middleware return (only
\* SubAgentMiddleware has one: the task tool)
RegisteredTools(kwargs) ==
  (IF kwargs.include_default_tools THEN {"completion", "write_todos"} ELSE {})
    \cup kwargs.tools
    \cup (IF \E k \in 1..Len(MiddlewaresOf(kwargs)) :
               MiddlewaresOf(kwargs)[k] = "subagents"
          THEN {"task"} ELSE {})

(* ------------------- SubAgentMiddleware.run_subagent ------------------ *)
AvailableTypes == {"general-purpose", "researcher"}

\* {"error": "Subagent type '<type>' not found. Available: <types>"}
UnknownTypeError(type) ==
  [type |-> "dict", tag |-> "unknown_type", success |-> "none",
   hasResult |-> FALSE, big |-> FALSE,
   requested |-> type, available |-> AvailableTypes]

\* agent.run(description) on the instance: the state container of the
\* instance is seeded on its first run only, the task is appended as a user
\* turn; asks: the model of the nested loop requests the task tool, which
\* starts a run of a further sub-agent when the instance has that tool and
\* ends in an error turn otherwise; runOk: the nested loop returned and left
\* its assistant turn
NestedRun(msgs, id, runOk, asks) ==
  LET seeded == IF msgs = <<>> THEN <<[role |-> "system", call |-> 0]>> ELSE msgs
      asked == Append(seeded, [role |-> "user", call |-> id])
      tooled == IF asks
                THEN asked \o <<[role |-> "assistant", call |-> id],
                                [role |-> IF "task" \in RegisteredTools(DefaultAgentKwargs)
                                          THEN "nested_run" ELSE "tool_error",
                                 call |-> id]>>
                ELSE asked
  IN IF runOk THEN Append(tooled, [role |-> "assistant", call |-> id]) ELSE tooled

\* every valid type accepted, the requested one taken for valid
run_subagent_AnyType(type, comp, runOk) ==
  [result |-> IF runOk THEN EnvelopeOk ELSE EnvelopeFail,
   compiled |-> comp \cup {type},
   built |-> IF type \in comp THEN 0 ELSE 1, ran |-> 1]

\* the instance cache not consulted: an instance is built on every call
run_subagent_NoCache(type, comp, runOk) ==
  IF type \notin comp /\ type \notin AvailableTypes
  THEN [result |-> UnknownTypeError(type), compiled |-> comp, built |-> 0, ran |-> 0]
  ELSE [result |-> IF runOk THEN EnvelopeOk ELSE EnvelopeFail,
        compiled |-> comp \cup {type},
        built |-> 1, ran |-> 1]

\* runOk: whether the nested agent.run returned (otherwise it raised)
run_subagent(type, comp, runOk) ==
  IF type \notin comp /\ type \notin AvailableTypes
  THEN [result |-> UnknownTypeError(type), compiled |-> comp, built |-> 0, ran |-> 0]
  ELSE [result |-> IF runOk THEN EnvelopeOk ELSE EnvelopeFail,
        compiled |-> comp \cup {type},
        built |-> IF type \in comp THEN 0 ELSE 1, ran |-> 1]

(* ------------------------- the tool executor -------------------------- *)
\* what execute_tool may produce for a tool other than task
Outcomes(name) ==
  CASE name = "completion" -> {ToolDict, Raised}
    [] name = "write_file" -> {ToolDict, ToolStrBig}
    [] name = "write_todos" -> {ToolDict}
    [] OTHER -> {ToolDict, ToolStrSmall, ToolStrBig, Raised}

(* ------------------------- what a run yields -------------------------- *)
\* run_stream calls _execute_agent_loop with stream=True, run with
\* stream=False.  The flag is read by four statements of the loop only; each
\* is modelled by what it yields and the container it leaves, for either
\* value of the flag.  The container of the model is the one of the
\* streaming form, and one run of the model carries the output of both
\* forms: field stream for stream=True, block for stream=False.
NothingYielded == [stream |-> <<>>, block |-> <<>>]

\* a yielded text of the given length, a tool notice or a tool error notice
Item(kind, val) == [kind |-> kind, val |-> val]

\* if stream: yield <item>
StreamGuard(stream, s, item) ==
  [state |-> s, yields |-> IF stream THEN <<item>> ELSE <<>>]

\* async for chunk in response_stream: if chunk.content: ... if stream: yield
RECURSIVE ChunksGuard(_, _, _)
ChunksGuard(stream, s, chunks) ==
  IF chunks = <<>> THEN [state |-> s, yields |-> <<>>]
  ELSE LET g == IF chunks[1].content > 0
                THEN StreamGuard(stream, s, Item("text", chunks[1].content))
                ELSE [state |-> s, yields |-> <<>>]
           r == ChunksGuard(stream, g.state, Tail(chunks))
       IN [state |-> r.state, yields |-> g.yields \o r.yields]

\* the loop over messages after the while: the length of the joined content
\* of the assistant-role messages of the transcript (line breaks not counted)
RECURSIVE final_content(_)
final_content(msgs) ==
  IF msgs = <<>> THEN 0
  ELSE (IF msgs[1].role = "assistant" /\ msgs[1].content # "" THEN msgs[1].tok ELSE 0)
         + final_content(Tail(msgs))

\* the blocking form takes the assistant turns out of the transcript
FinalGuard_Consumes(stream, s) ==
  [state |-> IF stream THEN s
             ELSE Put(s, "messages",
                      SelectSeq(s.messages, LAMBDA m : m.role # "assistant")),
   yields |-> IF stream THEN <<>>
              ELSE <<Item("text", final_content(s.messages))>>]

\* if not stream: ... yield final_content.strip()
FinalGuard(stream, s) ==
  [state |-> s,
   yields |-> IF stream THEN <<>>
              ELSE <<Item("text", final_content(s.messages))>>]

\* what both forms have yielded after the statement
Both(y, on, off) == [stream |-> y.stream \o on.yields, block |-> y.block \o off.yields]

YieldChunks(y, s, chunks) ==
  Both(y, ChunksGuard(TRUE, s, chunks), ChunksGuard(FALSE, s, chunks))

\* yield "[Tool name: result]" or "[Tool Error: ...]"
YieldNotice(y, s, kind, id) ==
  Both(y, StreamGuard(TRUE, s, Item(kind, id)), StreamGuard(FALSE, s, Item(kind, id)))

YieldFinal(y, s) == Both(y, FinalGuard(TRUE, s), FinalGuard(FALSE, s))

\* A task identifier is a UUID made by the task tracker: an entry the model
\* emits can carry only an identifier that a create call has returned.
Knowable(item, svc) ==
  \A k \in 1..Len(item.args.todos) :
    item.args.todos[k].id = 0 \/ item.args.todos[k].id \in {t.id : t \in svc.tasks}

(* ------------------------------- Init --------------------------------- *)
\* Summarization reads and writes only messages and summarization_count,
\* which no other middleware touches: it is exercised under SumMenu with a
\* ceiling the transcript exceeds, the other menus run under a ceiling
\* never reached.
\* The agent is constructed either with the arguments' defaults (every
\* default middleware enabled, no middleware of the caller) or with the
\* default middleware disabled and the four middleware passed by the caller.
Configs ==
  { c \in [max_iterations : 0..MaxM, keep_last : 0..MaxKeep,
           max_tokens : {LowCeiling, HighCeiling}, menu : Menus,
           enable_default_middleware : BOOLEAN,
           middlewares : {<<>>, Pipeline, GuardedPipeline}] :
      /\ c.max_tokens = HighCeiling => c.keep_last = MaxKeep
      /\ c.max_tokens = LowCeiling <=> c.menu = SumMenu
      /\ c.enable_default_middleware <=> c.middlewares = <<>>
      /\ c.middlewares = GuardedPipeline <=> c.menu = VetoMenu
      /\ c.enable_default_middleware => c.max_iterations = 0 /\ c.menu = PlanMenu }

\* the constructor call that made the agent
Constructed(c) ==
  StatefulAgentInit([f \in FlagNames |->
                       IF f = "enable_default_middleware"
                       THEN c.enable_default_middleware ELSE TRUE],
                    c.middlewares)

Init ==
  /\ cfg \in Configs
  /\ state = EmptyState
  /\ pc = "idle"
  /\ iteration = 0
  /\ done = FALSE
  /\ calls = <<>>
  /\ ci = 0
  /\ tc = NoTc
  /\ result = NoResult
  /\ runs = 0
  /\ outcome = IF Constructed(cfg).raised THEN "init_error" ELSE "none"
  /\ modelCalls = 0
  /\ turns = 0
  /\ nextId = 1
  /\ task_service = NewTaskService
  /\ compiled = {}
  /\ constructed = 0
  /\ subRuns = 0
  /\ subMessages = [t \in AvailableTypes |-> <<>>]
  /\ response_stream = <<>>
  /\ longTexts = {}
  /\ yielded = NothingYielded
  /\ execs = <<>>
  /\ askedCompletion = FALSE
  /\ trace = <<>>

(* ------------------------ _execute_agent_loop ------------------------- *)
\* the except branch: one tool turn with the error text
ErrorTurn(s, id) ==
  Put(s, "messages", Append(s.messages, ToolTurn(id, "error")))

\* str(result.get("result", result))
ToolResultText(res) == res.tag

\* the system prompt inserted on every run
StartRun_AlwaysInsert ==
  /\ pc = "idle"
  /\ outcome # "init_error"
  /\ runs < RunBudget(cfg.menu)
  /\ LET s1 == IF ~state.initialized
               THEN Merge(state, [EmptyState EXCEPT
                                    !.keys = {"messages", "iteration", "initialized"},
                                    !.initialized = TRUE])
               ELSE state
     IN state' = Put(s1, "messages", Append(<<SystemPrompt>> \o s1.messages, UserTurn))
  /\ iteration' = 0
  /\ done' = FALSE
  /\ pc' = "loop"
  /\ runs' = runs + 1
  /\ outcome' = "running"
  /\ modelCalls' = 0
  /\ calls' = <<>>
  /\ ci' = 0
  /\ askedCompletion' = FALSE
  /\ trace' = <<>>
  /\ yielded' = NothingYielded
  /\ UNCHANGED <<longTexts, cfg, tc, result, nextId, task_service, compiled,
                 constructed, subRuns, subMessages, response_stream, execs, turns>>

\* setup: one-time initialisation, system prompt at index 0, user turn
StartRun ==
  /\ pc = "idle"
  /\ outcome # "init_error"
  /\ runs < RunBudget(cfg.menu)
  /\ LET s1 == IF ~state.initialized
               THEN Merge(state, [EmptyState EXCEPT
                                    !.keys = {"messages", "iteration", "initialized"},
                                    !.initialized = TRUE])
               ELSE state
         m1 == s1.messages
         m2 == IF m1 = <<>> \/ m1[1].role # "system"
               THEN <<SystemPrompt>> \o m1 ELSE m1
     IN state' = Put(s1, "messages", Append(m2, UserTurn))
  /\ iteration' = 0
  /\ done' = FALSE
  /\ pc' = "loop"
  /\ runs' = runs + 1
  /\ outcome' = "running"
  /\ modelCalls' = 0
  /\ calls' = <<>>
  /\ ci' = 0
  /\ askedCompletion' = FALSE
  /\ trace' = <<>>
  /\ yielded' = NothingYielded
  /\ UNCHANGED <<longTexts, cfg, tc, result, nextId, task_service, compiled,
                 constructed, subRuns, subMessages, response_stream, execs, turns>>

\* the loop test written with <=
Iterate_OffByOne ==
  /\ pc = "loop"
  /\ ~done /\ iteration <= cfg.max_iterations
  /\ turns < MaxTurns
  /\ iteration' = iteration + 1
  /\ state' = Put(state, "iteration", iteration + 1)
  /\ pc' = "before_llm"
  /\ trace' = <<>>
  /\ UNCHANGED <<yielded, longTexts, turns, askedCompletion, cfg, done, calls, ci, tc, result, runs, outcome,
                 modelCalls, nextId, task_service, compiled, constructed,
                 subRuns, subMessages, response_stream, execs>>

\* while not done and iteration < max_iterations: iteration += 1
Iterate ==
  /\ pc = "loop"
  /\ ~done /\ iteration < cfg.max_iterations
  /\ turns < MaxTurns
  /\ iteration' = iteration + 1
  /\ state' = Put(state, "iteration", iteration + 1)
  /\ pc' = "before_llm"
  /\ trace' = <<>>
  /\ UNCHANGED <<yielded, longTexts, turns, askedCompletion, cfg, done, calls, ci, tc, result, runs, outcome, modelCalls,
                 nextId, task_service, compiled, constructed, subRuns, subMessages, response_stream, execs>>

\* the loop condition fails: the generator returns
Finish ==
  /\ pc = "loop"
  /\ ~(~done /\ iteration < cfg.max_iterations)
  /\ pc' = "idle"
  /\ outcome' = "normal"
  /\ yielded' = YieldFinal(yielded, state)
  /\ state' = FinalGuard(TRUE, state).state
  /\ UNCHANGED <<longTexts, turns, askedCompletion, cfg, iteration, done, calls, ci, tc, result, runs,
                 modelCalls, nextId, task_service, compiled, constructed,
                 subRuns, subMessages, response_stream, execs, trace>>

BeforeLLM ==
  /\ pc = "before_llm"
  /\ \E genOk \in BOOLEAN :
       LET r == RunBeforeLLM(1, state, cfg, genOk, trace)
       IN state' = r.state /\ trace' = r.evs
  /\ pc' = "model"
  /\ UNCHANGED <<yielded, longTexts, turns, askedCompletion, cfg, iteration, done, calls, ci, tc, result, runs, outcome,
                 modelCalls, nextId, task_service, compiled, constructed,
                 subRuns, subMessages, response_stream, execs>>

\* a chunk of the response stream: text carried (as a cost, 0 when none)
\* and tool-call list carried (empty when the chunk has none)
Chunk(content, tool_calls) == [content |-> content, tool_calls |-> tool_calls]

\* tool-call lists an earlier chunk may have carried before the list cs:
\* a shorter list, or one whose first call names another tool
Earlier(cs) ==
  {SubSeq(cs, 1, k) : k \in 1..Len(cs) - 1}
    \cup {[cs EXCEPT ![1].name = "search", ![1].args = ArgsPlain]}

\* the streams that deliver text of the given cost (in two chunks when it
\* is long enough to be split), or the call list cs
Streams(text, cs) ==
  IF cs = <<>>
  THEN {IF text > 1 THEN <<Chunk(text - 1, <<>>), Chunk(1, <<>>)>>
                     ELSE <<Chunk(text, <<>>)>>}
  ELSE {<<Chunk(0, cs)>>, <<Chunk(0, cs), Chunk(0, <<>>)>>}
         \cup {<<Chunk(0, e), Chunk(0, cs)>> : e \in Earlier(cs)}

\* the first tool-call list of the stream is kept
RECURSIVE ConsumeStream_FirstWins(_, _, _)
ConsumeStream_FirstWins(chunks, i, acc) ==
  IF i > Len(chunks) THEN acc
  ELSE ConsumeStream_FirstWins(chunks, i + 1,
         [full_content |-> acc.full_content + chunks[i].content,
          final_tool_calls |->
            IF chunks[i].tool_calls # <<>> /\ acc.final_tool_calls = <<>>
            THEN chunks[i].tool_calls ELSE acc.final_tool_calls])

\* the async for over the response stream: content is accumulated, a chunk
\* with a non-empty tool-call list replaces final_tool_calls
RECURSIVE ConsumeStream(_, _, _)
ConsumeStream(chunks, i, acc) ==
  IF i > Len(chunks) THEN acc
  ELSE ConsumeStream(chunks, i + 1,
         [full_content |-> acc.full_content + chunks[i].content,
          final_tool_calls |->
            IF chunks[i].tool_calls # <<>>
            THEN chunks[i].tool_calls ELSE acc.final_tool_calls])

\* full_content = "", final_tool_calls = None
NoResponse == [full_content |-> 0, final_tool_calls |-> <<>>]

\* the after_llm hooks run before the assistant turn is appended
ModelCall_HooksFirst ==
  /\ pc = "model"
  /\ \E text \in {0, TextTok}, n \in 0..MaxCalls :
       /\ nextId + n - 1 <= CallBudget(cfg.menu)
       /\ text = 0 <=> n > 0
       /\ \E pick \in [1..n -> {m \in cfg.menu : Knowable(m, task_service)}] :
            LET cs == [i \in 1..n |->
                         [id |-> nextId + i - 1, name |-> pick[i].name,
                          args |-> pick[i].args]]
            IN \E chunks \in Streams(text, cs) :
               LET r == ConsumeStream(chunks, 1, NoResponse)
                   ftc == r.final_tool_calls
                   turn == Msg("assistant",
                               IF r.full_content = 0 THEN "" ELSE "text", 0,
                               [i \in 1..Len(ftc) |-> ftc[i].id], r.full_content)
               IN
               /\ yielded' = YieldChunks(yielded, state, chunks)
               /\ response_stream' = <<>>
               /\ calls' = ftc
               /\ state' = Put(state, "messages", Append(state.messages, turn))
               /\ nextId' = nextId + n
               /\ execs' = execs \o [i \in 1..n |-> 0]
               /\ askedCompletion' =
                    (askedCompletion \/ \E i \in 1..n : pick[i].name = "completion")
  /\ modelCalls' = modelCalls + 1
  /\ turns' = turns + 1
  /\ trace' = RunAfterLLM(1, state, Append(trace, Ev("model", "", 0))).evs
                \o <<Ev("append_assistant", "", 0)>>
  /\ ci' = 1
  /\ pc' = "tool"
  /\ UNCHANGED <<longTexts, cfg, iteration, done, tc, result, runs, outcome,
                 task_service, compiled, constructed, subRuns, subMessages>>

\* the model streams a response; the assistant turn is appended
ModelCall ==
  /\ pc = "model"
  /\ \E text \in {0, TextTok}, n \in 0..MaxCalls :
       /\ nextId + n - 1 <= CallBudget(cfg.menu)
       /\ text = 0 <=> n > 0
       /\ \E pick \in [1..n -> {m \in cfg.menu : Knowable(m, task_service)}] :
            LET cs == [i \in 1..n |->
                         [id |-> nextId + i - 1, name |-> pick[i].name,
                          args |-> pick[i].args]]
            IN \E chunks \in Streams(text, cs) :
               LET r == ConsumeStream(chunks, 1, NoResponse)
                   ftc == r.final_tool_calls
                   turn == Msg("assistant",
                               IF r.full_content = 0 THEN "" ELSE "text", 0,
                               [i \in 1..Len(ftc) |-> ftc[i].id], r.full_content)
               IN
               /\ yielded' = YieldChunks(yielded, state, chunks)
               /\ response_stream' = chunks
               /\ calls' = ftc
               /\ state' = Put(ChunksGuard(TRUE, state, chunks).state, "messages",
                             Append(ChunksGuard(TRUE, state, chunks).state.messages, turn))
               /\ nextId' = nextId + n
               /\ execs' = execs \o [i \in 1..n |-> 0]
               /\ askedCompletion' =
                    (askedCompletion \/ \E i \in 1..n : pick[i].name = "completion")
  /\ modelCalls' = modelCalls + 1
  /\ turns' = turns + 1
  /\ trace' = trace \o <<Ev("model", "", 0), Ev("append_assistant", "", 0)>>
  /\ pc' = "after_llm"
  /\ UNCHANGED <<longTexts, cfg, iteration, done, ci, tc, result, runs, outcome,
                 task_service, compiled, constructed, subRuns, subMessages>>

\* ainvoke_stream raises: nothing in the loop catches it
ModelFail ==
  /\ pc = "model"
  /\ modelCalls' = modelCalls + 1
  /\ turns' = turns + 1
  /\ trace' = Append(trace, Ev("model", "", 0))
  /\ pc' = "idle"
  /\ outcome' = "exception"
  /\ UNCHANGED <<yielded, longTexts, askedCompletion, cfg, state, iteration, done, calls, ci, tc, result, runs,
                 nextId, task_service, compiled, constructed, subRuns, subMessages, response_stream, execs>>

AfterLLM ==
  /\ pc = "after_llm"
  /\ LET r == RunAfterLLM(1, state, trace)
     IN state' = r.state /\ trace' = r.evs
  /\ response_stream' = <<>>
  /\ IF calls # <<>> THEN pc' = "tool" /\ ci' = 1
                     ELSE pc' = "loop" /\ ci' = ci
  /\ UNCHANGED <<yielded, longTexts, turns, askedCompletion, cfg, iteration, done, calls, tc, result, runs, outcome,
                 modelCalls, nextId, task_service, compiled, constructed,
                 subRuns, subMessages, execs>>

\* the for loop over final_tool_calls is exhausted
\* the for loop left as soon as done is set
ToolsDone_BreakOnDone ==
  /\ pc = "tool"
  /\ ci > Len(calls) \/ done
  /\ pc' = "loop"
  /\ UNCHANGED <<yielded, longTexts, turns, askedCompletion, cfg, state, iteration, done, calls, ci, tc, result, runs,
                 outcome, modelCalls, nextId, task_service, compiled,
                 constructed, subRuns, subMessages, response_stream, execs, trace>>

ToolsDone ==
  /\ pc = "tool"
  /\ ci > Len(calls)
  /\ pc' = "loop"
  /\ UNCHANGED <<yielded, longTexts, turns, askedCompletion, cfg, state, iteration, done, calls, ci, tc, result, runs,
                 outcome, modelCalls, nextId, task_service, compiled,
                 constructed, subRuns, subMessages, response_stream, execs, trace>>

\* json.loads succeeds (or the arguments came parsed): tool_call_dict is built
ParseOk ==
  /\ pc = "tool"
  /\ ci <= Len(calls)
  /\ calls[ci].args.parse # "bad"
  /\ tc' = [id |-> calls[ci].id, name |-> calls[ci].name, args |-> calls[ci].args,
            skip |-> FALSE, hasResult |-> FALSE, result |-> NoResult]
  /\ result' = NoResult
  /\ pc' = "before_tool"
  /\ UNCHANGED <<yielded, longTexts, turns, askedCompletion, cfg, state, iteration, done, calls, ci, runs, outcome,
                 modelCalls, nextId, task_service, compiled, constructed,
                 subRuns, subMessages, response_stream, execs, trace>>

\* the parse failure escapes the loop
ParseFail_Aborts ==
  /\ pc = "tool"
  /\ ci <= Len(calls)
  /\ calls[ci].args.parse = "bad"
  /\ pc' = "idle"
  /\ outcome' = "exception"
  /\ UNCHANGED <<yielded, longTexts, turns, askedCompletion, cfg, state, iteration, done, calls, ci, tc, result, runs,
                 modelCalls, nextId, task_service, compiled, constructed,
                 subRuns, subMessages, response_stream, execs, trace>>

\* json.loads raises: error turn, on to the next call
ParseFail ==
  /\ pc = "tool"
  /\ ci <= Len(calls)
  /\ calls[ci].args.parse = "bad"
  /\ state' = StreamGuard(TRUE, ErrorTurn(state, calls[ci].id),
                        Item("tool_error", calls[ci].id)).state
  /\ trace' = Append(trace, Ev("append_tool", "", calls[ci].id))
  /\ ci' = ci + 1
  /\ yielded' = YieldNotice(yielded, state, "tool_error", calls[ci].id)
  /\ UNCHANGED <<longTexts, turns, askedCompletion, cfg, pc, iteration, done, calls, tc, result, runs, outcome,
                 modelCalls, nextId, task_service, compiled, constructed,
                 subRuns, subMessages, response_stream, execs>>

BeforeTool ==
  /\ pc = "before_tool"
  /\ LET r == RunBeforeTool(1, tc, state, task_service, trace)
     IN /\ task_service' = r.svc
        /\ IF r.raised
           THEN /\ state' = StreamGuard(TRUE, ErrorTurn(r.state, tc.id),
                                     Item("tool_error", tc.id)).state
                /\ trace' = Append(r.evs, Ev("append_tool", "", tc.id))
                /\ ci' = ci + 1
                /\ pc' = "tool"
                /\ tc' = tc
                /\ yielded' = YieldNotice(yielded, state, "tool_error", tc.id)
           ELSE /\ state' = r.state
                /\ trace' = r.evs
                /\ ci' = ci
                /\ pc' = "execute"
                /\ tc' = r.tc
                /\ yielded' = yielded
  /\ UNCHANGED <<longTexts, turns, askedCompletion, cfg, iteration, done, calls, result, runs, outcome,
                 modelCalls, nextId, compiled, constructed, subRuns, subMessages, response_stream, execs>>

\* _skip_execution is set: the record's _result, or the default
\* done is set by executed completion calls alone
UseSkipResult_NotDone ==
  /\ pc = "execute"
  /\ tc.skip
  /\ result' = IF tc.hasResult THEN tc.result ELSE DefaultSkipResult
  /\ pc' = "after_tool"
  /\ UNCHANGED <<yielded, longTexts, turns, askedCompletion, cfg, state, iteration, calls, ci, tc, runs, outcome,
                 modelCalls, nextId, task_service, compiled, constructed,
                 subRuns, subMessages, response_stream, execs, trace, done>>

\* a vetoed call is dropped: no after_tool hooks, no tool turn
UseSkipResult_NoTurn ==
  /\ pc = "execute"
  /\ tc.skip
  /\ result' = IF tc.hasResult THEN tc.result ELSE DefaultSkipResult
  /\ done' = (done \/ tc.name = "completion")
  /\ ci' = ci + 1
  /\ pc' = "tool"
  /\ UNCHANGED <<yielded, longTexts, turns, askedCompletion, cfg, state, iteration, calls, tc, runs, outcome,
                 modelCalls, nextId, task_service, compiled, constructed,
                 subRuns, subMessages, response_stream, execs, trace>>

UseSkipResult ==
  /\ pc = "execute"
  /\ tc.skip
  /\ result' = IF tc.hasResult THEN tc.result ELSE DefaultSkipResult
  /\ done' = (done \/ tc.name = "completion")
  /\ pc' = "after_tool"
  /\ UNCHANGED <<yielded, longTexts, turns, askedCompletion, cfg, state, iteration, calls, ci, tc, runs, outcome,
                 modelCalls, nextId, task_service, compiled, constructed,
                 subRuns, subMessages, response_stream, execs, trace>>

\* the nested agent handed the state container of its parent
ExecuteTask_SharedState ==
  /\ pc = "execute"
  /\ ~tc.skip
  /\ tc.name = "task"
  /\ \E runOk \in BOOLEAN, asks \in BOOLEAN :
       LET r == run_subagent(tc.args.subagent_type, compiled, runOk)
       IN /\ result' = r.result
          /\ compiled' = r.compiled
          /\ constructed' = constructed + r.built
          /\ subRuns' = subRuns + r.ran
          /\ subMessages' =
               IF r.ran = 1
               THEN [subMessages EXCEPT ![tc.args.subagent_type] =
                       NestedRun(@, tc.id, runOk, asks /\ runOk)]
               ELSE subMessages
  /\ execs' = [execs EXCEPT ![tc.id] = @ + 1]
  /\ trace' = Append(trace, Ev("execute", "", tc.id))
  /\ pc' = "after_tool"
  /\ state' = Put(state, "messages", Append(state.messages, UserTurn))
  /\ UNCHANGED <<yielded, longTexts, response_stream, turns, askedCompletion, cfg, iteration, done, calls, ci, tc, runs, outcome,
                 modelCalls, nextId, task_service>>

\* execute_tool("task", ...): TaskTool.execute -> run_subagent
ExecuteTask ==
  /\ pc = "execute"
  /\ ~tc.skip
  /\ tc.name = "task"
  /\ \E runOk \in BOOLEAN, asks \in BOOLEAN :
       LET r == run_subagent(tc.args.subagent_type, compiled, runOk)
       IN /\ result' = r.result
          /\ compiled' = r.compiled
          /\ constructed' = constructed + r.built
          /\ subRuns' = subRuns + r.ran
          /\ subMessages' =
               IF r.ran = 1
               THEN [subMessages EXCEPT ![tc.args.subagent_type] =
                       NestedRun(@, tc.id, runOk, asks /\ runOk)]
               ELSE subMessages
  /\ execs' = [execs EXCEPT ![tc.id] = @ + 1]
  /\ trace' = Append(trace, Ev("execute", "", tc.id))
  /\ pc' = "after_tool"
  /\ UNCHANGED <<yielded, longTexts, response_stream, turns, askedCompletion, cfg, state, iteration, done, calls, ci, tc, runs, outcome,
                 modelCalls, nextId, task_service>>

\* _create_subagent raises while the instance is built: run_subagent has
\* no handler around it, the loop's except branch writes the error turn
ExecuteTaskRaises ==
  /\ pc = "execute"
  /\ ~tc.skip
  /\ tc.name = "task"
  /\ tc.args.subagent_type \in AvailableTypes \ compiled
  /\ execs' = [execs EXCEPT ![tc.id] = @ + 1]
  /\ state' = StreamGuard(TRUE, ErrorTurn(state, tc.id), Item("tool_error", tc.id)).state
  /\ trace' = trace \o <<Ev("execute", "", tc.id), Ev("append_tool", "", tc.id)>>
  /\ ci' = ci + 1
  /\ pc' = "tool"
  /\ yielded' = YieldNotice(yielded, state, "tool_error", tc.id)
  /\ UNCHANGED <<longTexts, turns, askedCompletion, cfg, iteration, done, calls, tc, result, runs, outcome,
                 modelCalls, nextId, task_service, compiled, constructed,
                 subRuns, subMessages, response_stream>>

\* the completion tool does not end the loop
ExecuteTool_NeverDone ==
  /\ pc = "execute"
  /\ ~tc.skip
  /\ tc.name # "task"
  /\ \E o \in Outcomes(tc.name) \ {Raised} :
       /\ result' = o
       /\ longTexts' = IF o.type = "str" /\ o.big THEN longTexts \cup {tc.id}
                       ELSE longTexts
  /\ done' = done
  /\ execs' = [execs EXCEPT ![tc.id] = @ + 1]
  /\ trace' = Append(trace, Ev("execute", "", tc.id))
  /\ pc' = "after_tool"
  /\ UNCHANGED <<yielded, turns, askedCompletion, cfg, state, iteration, calls, ci, tc, runs, outcome,
                 modelCalls, nextId, task_service, compiled, constructed,
                 subRuns, subMessages, response_stream>>

\* the skip flag not consulted
ExecuteTool_IgnoresSkip ==
  /\ pc = "execute"
  /\ tc.name # "task"
  /\ \E o \in Outcomes(tc.name) \ {Raised} :
       /\ result' = o
       /\ longTexts' = IF o.type = "str" /\ o.big THEN longTexts \cup {tc.id}
                       ELSE longTexts
  /\ done' = (done \/ tc.name = "completion")
  /\ execs' = [execs EXCEPT ![tc.id] = @ + 1]
  /\ trace' = Append(trace, Ev("execute", "", tc.id))
  /\ pc' = "after_tool"
  /\ UNCHANGED <<yielded, turns, askedCompletion, cfg, state, iteration, calls, ci, tc, runs, outcome,
                 modelCalls, nextId, task_service, compiled, constructed,
                 subRuns, subMessages, response_stream>>

\* execute_tool for any other tool returns a value
ExecuteTool ==
  /\ pc = "execute"
  /\ ~tc.skip
  /\ tc.name # "task"
  /\ \E o \in Outcomes(tc.name) \ {Raised} :
       /\ result' = o
       /\ longTexts' = IF o.type = "str" /\ o.big THEN longTexts \cup {tc.id}
                       ELSE longTexts
  /\ done' = (done \/ tc.name = "completion")
  /\ execs' = [execs EXCEPT ![tc.id] = @ + 1]
  /\ trace' = Append(trace, Ev("execute", "", tc.id))
  /\ pc' = "after_tool"
  /\ UNCHANGED <<yielded, turns, askedCompletion, cfg, state, iteration, calls, ci, tc, runs, outcome,
                 modelCalls, nextId, task_service, compiled, constructed,
                 subRuns, subMessages, response_stream>>

\* execute_tool raises: error turn, on to the next call
ExecuteRaises ==
  /\ pc = "execute"
  /\ ~tc.skip
  /\ tc.name # "task"
  /\ Raised \in Outcomes(tc.name)
  /\ execs' = [execs EXCEPT ![tc.id] = @ + 1]
  /\ state' = StreamGuard(TRUE, ErrorTurn(state, tc.id), Item("tool_error", tc.id)).state
  /\ trace' = trace \o <<Ev("execute", "", tc.id), Ev("append_tool", "", tc.id)>>
  /\ ci' = ci + 1
  /\ pc' = "tool"
  /\ yielded' = YieldNotice(yielded, state, "tool_error", tc.id)
  /\ UNCHANGED <<longTexts, turns, askedCompletion, cfg, iteration, done, calls, tc, result, runs, outcome,
                 modelCalls, nextId, task_service, compiled, constructed,
                 subRuns, subMessages, response_stream>>

AfterTool ==
  /\ pc = "after_tool"
  /\ LET r == RunAfterTool(1, tc, result, state, trace)
     IN result' = r.result /\ state' = r.state /\ trace' = r.evs
  /\ pc' = "append"
  /\ UNCHANGED <<yielded, longTexts, turns, askedCompletion, cfg, iteration, done, calls, ci, tc, runs, outcome,
                 modelCalls, nextId, task_service, compiled, constructed,
                 subRuns, subMessages, response_stream, execs>>

\* the tool turn is appended; a str result has no .get and ends in the
\* except branch
AppendTool ==
  /\ pc = "append"
  /\ state' = StreamGuard(TRUE,
                IF result.type = "str" THEN ErrorTurn(state, tc.id)
                ELSE Put(state, "messages",
                         Append(state.messages, ToolTurn(tc.id, ToolResultText(result)))),
                Item(IF result.type = "str" THEN "tool_error" ELSE "tool", tc.id)).state
  /\ trace' = Append(trace, Ev("append_tool", "", tc.id))
  /\ ci' = ci + 1
  /\ pc' = "tool"
  /\ yielded' = YieldNotice(yielded, state, IF result.type = "str" THEN "tool_error" ELSE "tool", tc.id)
  /\ UNCHANGED <<longTexts, turns, askedCompletion, cfg, iteration, done, calls, tc, result, runs, outcome,
                 modelCalls, nextId, task_service, compiled, constructed,
                 subRuns, subMessages, response_stream, execs>>

Next ==
  \/ StartRun
  \/ Iterate
  \/ Finish
  \/ BeforeLLM
  \/ ModelCall
  \/ ModelFail
  \/ AfterLLM
  \/ ToolsDone
  \/ ParseOk
  \/ ParseFail
  \/ BeforeTool
  \/ UseSkipResult
  \/ ExecuteTask
  \/ ExecuteTaskRaises
  \/ ExecuteTool
  \/ ExecuteRaises
  \/ AfterTool
  \/ AppendTool

Spec == Init /\ [][Next]_vars

\* the scheduler keeps stepping a started run
FairSpec == Spec /\ WF_vars(Next)

(* ------------- a MiddlewareStack over caller-supplied middleware ------- *)
\* MiddlewareStack(middlewares) built on a list of mocks, its four run_*
\* methods called by a test on one state dict.  pc names the method called
\* last, outcome tells whether it returned, trace holds the hooks it
\* invoked, tc and result hold the values the tool methods are passed and
\* return, runs counts the calls made.
StackLists == UNION {[1..n -> Mocks] : n \in 0..MaxStack}

StackCall == [NoTc EXCEPT !.id = 1, !.name = "test"]

StackOthers == <<cfg, iteration, done, calls, ci, modelCalls, turns, nextId,
                 task_service, compiled, constructed, subRuns, subMessages,
                 response_stream, execs, longTexts, yielded, askedCompletion>>

StackInit ==
  /\ cfg \in {[max_iterations |-> 0, keep_last |-> MaxKeep,
               max_tokens |-> HighCeiling, menu |-> PlanMenu,
               enable_default_middleware |-> FALSE, middlewares |-> ms] :
              ms \in StackLists}
  /\ state = EmptyState
  /\ pc = "idle"
  /\ iteration = 0
  /\ done = FALSE
  /\ calls = <<>>
  /\ ci = 0
  /\ tc = StackCall
  /\ result \in {ToolDict, ToolStrSmall}
  /\ runs = 0
  /\ outcome = "none"
  /\ modelCalls = 0
  /\ turns = 0
  /\ nextId = 1
  /\ task_service = NewTaskService
  /\ compiled = {}
  /\ constructed = 0
  /\ subRuns = 0
  /\ subMessages = [t \in AvailableTypes |-> <<>>]
  /\ response_stream = <<>>
  /\ longTexts = {}
  /\ yielded = NothingYielded
  /\ execs = <<>>
  /\ askedCompletion = FALSE
  /\ trace = <<>>

\* await stack.run_before_llm(state)
StackRunBeforeLLM ==
  /\ runs < MaxHooks
  /\ LET r == run_before_llm(cfg.middlewares, 1, state, cfg, TRUE, <<>>)
     IN /\ state' = r.state
        /\ trace' = r.evs
        /\ outcome' = IF r.raised THEN "raised" ELSE "returned"
  /\ pc' = "before_llm"
  /\ runs' = runs + 1
  /\ UNCHANGED <<tc, result>>
  /\ UNCHANGED StackOthers

\* await stack.run_after_llm(state, response)
StackRunAfterLLM ==
  /\ runs < MaxHooks
  /\ LET r == run_after_llm(cfg.middlewares, 1, state, <<>>)
     IN /\ state' = r.state
        /\ trace' = r.evs
        /\ outcome' = IF r.raised THEN "raised" ELSE "returned"
  /\ pc' = "after_llm"
  /\ runs' = runs + 1
  /\ UNCHANGED <<tc, result>>
  /\ UNCHANGED StackOthers

\* tool_call = await stack.run_before_tool(tool_call, state)
StackRunBeforeTool ==
  /\ runs < MaxHooks
  /\ LET r == run_before_tool(cfg.middlewares, 1, tc, state, task_service, <<>>)
     IN /\ state' = r.state
        /\ trace' = r.evs
        /\ outcome' = IF r.raised THEN "raised" ELSE "returned"
        /\ tc' = IF r.raised THEN tc ELSE r.tc
  /\ pc' = "before_tool"
  /\ runs' = runs + 1
  /\ UNCHANGED result
  /\ UNCHANGED StackOthers

\* result = await stack.run_after_tool(tool_call, result, state)
StackRunAfterTool ==
  /\ runs < MaxHooks
  /\ LET r == run_after_tool(cfg.middlewares, 1, tc, result, state, <<>>)
     IN /\ state' = r.state
        /\ trace' = r.evs
        /\ outcome' = IF r.raised THEN "raised" ELSE "returned"
        /\ result' = IF r.raised THEN result ELSE r.result
  /\ pc' = "after_tool"
  /\ runs' = runs + 1
  /\ UNCHANGED tc
  /\ UNCHANGED StackOthers

StackNext ==
  \/ StackRunBeforeLLM
  \/ StackRunAfterLLM
  \/ StackRunBeforeTool
  \/ StackRunAfterTool

StackSpec == StackInit /\ [][StackNext]_vars

TypeOK ==
  /\ pc \in {"idle", "loop", "before_llm", "model", "after_llm", "tool",
             "before_tool", "execute", "after_tool", "append"}
  /\ iteration \in 0..MaxM + 1

(* ============================== claims ================================ *)

InFlight == pc \in {"execute", "after_tool", "append"}

\* C1: a task call processed while todos is absent or empty is marked
\* skipped with the refusal {success: false, error}, execute_tool is not
\* called for it, and no sub-agent has been constructed or run.
C1_GateRefuses ==
  /\ (InFlight /\ tc.name = "task" /\ state.todos = <<>>) =>
       /\ tc.skip /\ tc.hasResult
       /\ tc.result = PlanningRefusal /\ tc.result.success = "false"
       /\ execs[tc.id] = 0
       /\ (pc = "append" => result = PlanningRefusal)
  /\ state.todos = <<>> => (compiled = {} /\ constructed = 0 /\ subRuns = 0)

C1_Witness ==
  /\ pc = "append" /\ tc.name = "task" /\ state.todos = <<>>
  /\ result = PlanningRefusal

\* C2 as stated: at most M model calls, the stored iteration never above M,
\* and within a run the stored iteration only ever changes by +1, once per
\* iteration.
C2_Original ==
  /\ [](modelCalls <= cfg.max_iterations /\ state.iteration <= cfg.max_iterations)
  /\ [][(pc # "idle" /\ state.iteration' # state.iteration)
          => state.iteration' = state.iteration + 1]_vars
  /\ [][iteration' = iteration + 1
          => state.iteration' = state.iteration + 1]_vars

\* C2 amended: at most M model calls, the stored iteration never above M;
\* the k-th iteration of a run stores k, so from the first iteration of a
\* run on the stored value grows by exactly 1 per iteration; the first
\* iteration of a later run on the same state stores 1 over whatever the
\* earlier run left.
C2_IterationBounded ==
  /\ [](/\ modelCalls <= cfg.max_iterations
        /\ modelCalls <= iteration
        /\ state.iteration <= cfg.max_iterations
        /\ (iteration > 0 => state.iteration = iteration))
  /\ [][iteration' # iteration =>
          \/ iteration' = iteration + 1 /\ state.iteration' = iteration + 1
          \/ iteration' = 0 /\ pc = "idle" /\ state.iteration' = state.iteration]_vars

C2_Witness ==
  /\ runs = 2 /\ pc = "before_llm" /\ iteration = cfg.max_iterations
  /\ cfg.max_iterations > 1

\* C3 as stated: a run in which the model never requested the completion
\* tool has ended normally, with the stored iteration equal to M.
C3_Original ==
  (pc = "idle" /\ runs > 0 /\ ~askedCompletion) =>
    (outcome = "normal" /\ state.iteration = cfg.max_iterations)

\* C4 as stated: no failure of the model call, a hook, argument parsing,
\* tool execution or digest generation ends a run with an exception.
C4_Original == outcome # "exception"

CountOf(msgs, m) == Cardinality({i \in 1..Len(msgs) : msgs[i] = m})

\* C5: once a run has started on a state container, messages[0] is the
\* standing system message, it has role system and it occurs exactly once,
\* after any number of runs and summarization passes.
C5_OneSystemPrompt ==
  state.initialized =>
    /\ state.messages # <<>>
    /\ state.messages[1].role = "system"
    /\ state.messages[1] = SystemPrompt
    /\ CountOf(state.messages, SystemPrompt) = 1

C5_Witness ==
  /\ runs = 2 /\ pc = "idle" /\ outcome = "normal"
  /\ state.summarization_count > 0

\* C6: for a call that got past all before_tool hooks: with the skip flag
\* set execute_tool is not called and the result is the record's _result;
\* with the flag not set execute_tool is called exactly once.
C6_SkipProtocol ==
  /\ \A id \in DOMAIN execs : execs[id] <= 1
  /\ pc \in {"after_tool", "append"} =>
       IF tc.skip THEN execs[tc.id] = 0 ELSE execs[tc.id] = 1
  /\ (pc = "after_tool" /\ tc.skip) => (tc.hasResult /\ result = tc.result)
  /\ pc = "execute" => execs[tc.id] = 0

C6_Witness ==
  /\ pc = "after_tool" /\ tc.skip /\ result = tc.result
  /\ \E id \in DOMAIN execs : execs[id] = 1

FirstMw == AgentMiddlewares[1]

LastMw == AgentMiddlewares[Len(AgentMiddlewares)]

NextMw(a, b) ==
  /\ b.ev = a.ev /\ b.call = a.call
  /\ \E k \in 1..Len(AgentMiddlewares) - 1 :
       a.mw = AgentMiddlewares[k] /\ b.mw = AgentMiddlewares[k + 1]

\* the event that starts the processing of the call with identifier id
StartsCall(b, id) ==
  /\ \E i \in 1..Len(calls) : calls[i].id = id
  /\ \/ b = Ev("before_tool", FirstMw, id)
     \/ b = Ev("append_tool", "", id) /\ \E i \in 1..Len(calls) :
          calls[i].id = id /\ calls[i].args.parse = "bad"

\* event b may directly follow event a within one iteration
Allowed(a, b) ==
  CASE a.ev = "before_llm" ->
         NextMw(a, b) \/ (a.mw = LastMw /\ b = Ev("model", "", 0))
    [] a.ev = "model" -> b = Ev("append_assistant", "", 0)
    [] a.ev = "append_assistant" -> b = Ev("after_llm", FirstMw, 0)
    [] a.ev = "after_llm" ->
         NextMw(a, b)
         \/ (a.mw = LastMw /\ calls # <<>> /\ StartsCall(b, calls[1].id))
    [] a.ev = "before_tool" ->
         \/ NextMw(a, b)
         \/ a.mw = LastMw /\ b = Ev("execute", "", a.call)
         \/ a.mw = LastMw /\ b = Ev("after_tool", FirstMw, a.call)
         \/ b = Ev("append_tool", "", a.call)
    [] a.ev = "execute" ->
         \/ b = Ev("after_tool", FirstMw, a.call)
         \/ b = Ev("append_tool", "", a.call)
    [] a.ev = "after_tool" ->
         NextMw(a, b) \/ (a.mw = LastMw /\ b = Ev("append_tool", "", a.call))
    [] a.ev = "append_tool" -> StartsCall(b, a.call + 1)
    [] OTHER -> FALSE

\* C7: the events of an iteration come in the one order before_llm hooks,
\* model call, append of the assistant turn, after_llm hooks, then per
\* tool call in emitted order before_tool hooks, execution, after_tool
\* hooks, append of its tool turn; the loop head is reached again only
\* after the tool turn of the last call.
C7_EventOrder ==
  /\ [](/\ trace # <<>> => trace[1] = Ev("before_llm", FirstMw, 0)
        /\ (pc = "loop" /\ trace # <<>>) =>
             IF calls = <<>> THEN trace[Len(trace)] = Ev("after_llm", LastMw, 0)
             ELSE trace[Len(trace)] = Ev("append_tool", "", calls[Len(calls)].id)
        /\ pc = "before_llm" => trace = <<>>
        /\ pc = "model" => trace[Len(trace)] = Ev("before_llm", LastMw, 0))
  /\ [][trace' # trace =>
          \/ trace' = <<>> /\ pc \in {"idle", "loop"}
          \/ /\ Len(trace') > Len(trace)
             /\ SubSeq(trace', 1, Len(trace)) = trace
             /\ \A k \in 1..Len(trace') - 1 :
                  k >= Len(trace) => (Allowed(trace[k], trace[k + 1]))']_vars

C7_Witness ==
  /\ pc = "loop" /\ Len(calls) = 2
  /\ \E k \in 1..Len(trace) : trace[k] = Ev("execute", "", calls[1].id)
  /\ \E k \in 1..Len(trace) : trace[k] = Ev("after_tool", LastMw, calls[2].id)
  /\ trace[Len(trace)] = Ev("append_tool", "", calls[2].id)

HasEv(e) == \E k \in 1..Len(trace) : trace[k] = e

ToolTurnsOf(id) ==
  {k \in 1..Len(state.messages) :
     state.messages[k].role = "tool" /\ state.messages[k].tool_call_id = id}

\* the execution of the call raised: its tool turn follows its execution
\* with no after_tool hook in between
ExecRaised(id) ==
  \E k \in 1..Len(trace) - 1 :
    trace[k] = Ev("execute", "", id) /\ trace[k + 1] = Ev("append_tool", "", id)

\* a step that appends an error tool turn
ErrorStep ==
  /\ pc \in {"tool", "before_tool", "execute", "append"}
  /\ Len(trace') = Len(trace) + 1 \/ Len(trace') = Len(trace) + 2
  /\ trace'[Len(trace')].ev = "append_tool"
  /\ state'.messages[Len(state'.messages)].content = "error"

\* C8: a tool call whose arguments fail to parse, or whose execution
\* raises, gets exactly one tool turn with its id and an error text; on a
\* parse failure neither the before_tool hooks nor the tool ran; the step
\* that writes the error turn moves on to the next call of the turn and the
\* run is not aborted.
C8_ErrorTurns ==
  /\ [](\A i \in 1..Len(calls) :
          LET id == calls[i].id
          IN (HasEv(Ev("append_tool", "", id))
                /\ (calls[i].args.parse = "bad" \/ ExecRaised(id))) =>
               /\ Cardinality(ToolTurnsOf(id)) = 1
               /\ \A k \in ToolTurnsOf(id) : state.messages[k].content = "error"
               /\ calls[i].args.parse = "bad" =>
                    /\ execs[id] = 0
                    /\ \A k \in 1..Len(trace) :
                         trace[k].call = id => trace[k].ev = "append_tool"
               /\ outcome # "exception")
  /\ [][(pc = "tool" /\ ci <= Len(calls) /\ calls[ci].args.parse = "bad") =>
          ErrorStep]_vars
  /\ [][ErrorStep =>
          /\ pc' = "tool" /\ ci' = ci + 1 /\ calls' = calls
          /\ outcome' = "running" /\ done' = done]_vars

C8_Witness ==
  /\ pc = "before_llm" /\ iteration = 2 /\ Len(calls) = 2
  /\ calls[1].args.parse = "bad" /\ execs[calls[1].id] = 0
  /\ calls[2].name = "completion" /\ execs[calls[2].id] = 1
  /\ \A i \in 1..2 : \A k \in ToolTurnsOf(calls[i].id) :
       state.messages[k].content = "error"
  /\ \A i \in 1..2 : Cardinality(ToolTurnsOf(calls[i].id)) = 1

\* the calls of the turn held in calls include a completion call that is
\* not the last one
CompletionFollowed ==
  \E i \in 1..Len(calls) - 1 : calls[i].name = "completion"

\* C9 as stated: after a turn with a completion call followed by further
\* calls, all calls of the turn are processed and no model call follows in
\* the run.
C9_Original ==
  /\ (pc = "loop" /\ trace # <<>> /\ CompletionFollowed) =>
       \A j \in 1..Len(calls) : HasEv(Ev("append_tool", "", calls[j].id))
  /\ pc \in {"before_llm", "model"} => ~CompletionFollowed

\* C9: every call of a turn gets its tool turn before the loop head is
\* reached, whether or not a completion call came earlier in the turn; once
\* a completion call has parsed, passed its before_tool hooks and executed
\* (or been skipped) without raising, done is set and no before_llm hook or
\* model call follows in the run.
C9_CompletionEndsRun ==
  /\ (pc = "loop" /\ trace # <<>>) =>
       \A j \in 1..Len(calls) : HasEv(Ev("append_tool", "", calls[j].id))
  /\ \A i \in 1..Len(calls) :
       (calls[i].name = "completion"
          /\ HasEv(Ev("after_tool", FirstMw, calls[i].id))) => done
  /\ done => pc \notin {"before_llm", "model", "after_llm"}
  /\ (done /\ pc = "loop") => ~ENABLED Iterate

C9_Witness ==
  /\ pc = "idle" /\ outcome = "normal" /\ done
  /\ Len(calls) = 2 /\ calls[1].name = "completion"
  /\ HasEv(Ev("after_tool", FirstMw, calls[1].id))
  /\ HasEv(Ev("execute", "", calls[2].id))
  /\ HasEv(Ev("append_tool", "", calls[2].id))
  /\ iteration < cfg.max_iterations

EmptyTodosCall ==
  /\ pc = "before_tool" /\ tc.name = "write_todos"
  /\ ~tc.args.hasTodos \/ tc.args.todos = <<>>

\* C10: the before_tool step of a write_todos call whose todos list is
\* missing or empty marks the call skipped with the result
\* {success: false}; the planning middleware returns no update, the state
\* (todos included) and the task tracker are left as they were.
C10_EmptyTodosVetoed ==
  /\ [](EmptyTodosCall =>
          TodoListBeforeTool(tc, state, task_service).upd = NoUpdate)
  /\ [][EmptyTodosCall =>
          /\ tc'.skip /\ tc'.hasResult
          /\ tc'.result = EmptyTodosRefusal /\ tc'.result.success = "false"
          /\ state' = state
          /\ task_service' = task_service
          /\ execs' = execs
          /\ pc' = "execute"]_vars

C10_Witness ==
  /\ pc = "execute" /\ tc.name = "write_todos" /\ tc.skip
  /\ tc.result = EmptyTodosRefusal
  /\ tc.args.hasTodos /\ tc.args.todos = <<>>
  /\ state.todos # <<>>
  /\ task_service # NewTaskService

TaskIds(svc) == {t.id : t \in svc.tasks}

\* a write_todos call that has passed the before_tool hooks, submitted
\* with N >= 1 entries that all lack an id and carry the fields the schema
\* requires
NewTodosCall ==
  /\ pc = "execute" /\ tc.name = "write_todos"
  /\ tc.args.hasTodos /\ tc.args.todos # <<>>
  /\ \A k \in 1..Len(tc.args.todos) :
       tc.args.todos[k].id = 0 /\ tc.args.todos[k].content

\* C11: after the before_tool hooks of a write_todos call with N >= 1
\* entries, none carrying an id, todos holds exactly N entries in the
\* submitted order (status and content as submitted), each with a non-empty
\* id of a task the middleware created in the task tracker, the N ids
\* pairwise distinct.
C11_NewTodosRecorded ==
  NewTodosCall =>
    LET sub == tc.args.todos
        rec == state.todos
    IN /\ "todos" \in state.keys
       /\ Len(rec) = Len(sub)
       /\ \A k \in 1..Len(sub) :
            /\ rec[k].status = sub[k].status
            /\ rec[k].content = sub[k].content
            /\ rec[k].id # 0
            /\ rec[k].id \in TaskIds(task_service)
       /\ \A j, k \in 1..Len(rec) : j # k => rec[j].id # rec[k].id
       /\ tc.skip /\ tc.result = TodosRecorded

C11_Witness ==
  /\ pc = "execute" /\ tc.name = "write_todos" /\ tc.result = TodosRecorded
  /\ Len(tc.args.todos) = 2 /\ Len(state.todos) = 2
  /\ state.todos[1].id # state.todos[2].id
  /\ state.todos[1].status = "pending" /\ state.todos[2].status = "in_progress"
  /\ Cardinality(task_service.tasks) = 4

\* the entries of files stored under path
FilesAt(files, path) == {e \in files : e.path = path}

\* a tool result is about to go through the after_tool hooks
AtAfterTool == pc = "after_tool"

Oversized(res) == res.type = "str" /\ res.big

\* C12: after_tool on a textual result longer than the threshold returns
\* the eviction notice in place of the result, and files then holds the
\* original text, and nothing else, under the path synthesized from the
\* tool-call id; the notice is what reaches the append step.
C12_Eviction ==
  /\ (AtAfterTool /\ Oversized(result)) =>
       LET r == FilesystemAfterTool(tc, result, state)
           after == RunAfterTool(1, tc, result, state, trace)
       IN /\ r.result = EvictionNotice
          /\ FilesAt(Merge(state, r.upd).files, LargePath(tc.id))
               = {[path |-> LargePath(tc.id), content |-> result.tag]}
          /\ after.result = EvictionNotice
          /\ FilesAt(after.state.files, LargePath(tc.id))
               = {[path |-> LargePath(tc.id), content |-> result.tag]}
  /\ (pc = "append" /\ result = EvictionNotice) =>
       FilesAt(state.files, LargePath(tc.id))
         = {[path |-> LargePath(tc.id), content |-> ToolStrBig.tag]}

C12_Witness ==
  /\ pc = "append" /\ result = EvictionNotice /\ execs[tc.id] = 1
  /\ [path |-> LargePath(tc.id), content |-> ToolStrBig.tag] \in state.files
  /\ Cardinality(state.files) = 2

\* the call is a file write from which a path and a content can be taken
FileWriteCall(t) == t.name = "write_file" /\ t.args.file

HasLeadingSystem(msgs) == msgs # <<>> /\ msgs[1].role = "system"

\* the last k elements of msgs, for 0 <= k <= Len(msgs)
LastK(msgs, k) == SubSeq(msgs, Len(msgs) - k + 1, Len(msgs))

\* the messages handed to the model differ from those the iteration began
\* with: a summarization pass rewrote the transcript
PassRewrote == pc = "before_llm" /\ state'.messages # state.messages

\* C14 as stated: a pass leaves (1 if leading system) + 1 + keep_last
\* messages, the leading system message unchanged, and the last keep_last
\* messages are the last keep_last messages from before the pass.
C14_Original ==
  [][PassRewrote =>
       LET old == state.messages
           new == state'.messages
           k == cfg.keep_last
           lead == IF HasLeadingSystem(old) THEN 1 ELSE 0
       IN /\ Len(new) = lead + 1 + k
          /\ lead = 1 => new[1] = old[1]
          /\ new[lead + 1].role = "system"
          /\ new[lead + 1].content \in {"digest", "truncated_digest"}
          /\ LastK(new, k) = LastK(old, k)]_vars

\* C15: summarization_count is 0 while its key is absent, goes up by
\* exactly 1 in every before_llm step whose summarization pass rewrote
\* messages, and changes in no other step.
C15_CountsPasses ==
  /\ []("summarization_count" \notin state.keys => state.summarization_count = 0)
  /\ [][IF PassRewrote
        THEN /\ state'.summarization_count = state.summarization_count + 1
             /\ "summarization_count" \in state'.keys
        ELSE state'.summarization_count = state.summarization_count]_vars

C15_Witness ==
  /\ state.summarization_count = 2
  /\ pc = "model"
  /\ \E k \in 1..Len(state.messages) : state.messages[k].content = "truncated_digest"

\* the transcript is too short, or cheap enough, for a pass
NoPassDue ==
  LET all == state.messages
      rest == IF HasLeadingSystem(all) THEN Tail(all) ELSE all
  IN \/ Len(all) <= cfg.keep_last + 1
     \/ Len(rest) <= cfg.keep_last
     \/ count_messages_tokens(all) <= cfg.max_tokens

\* C16: with at most keep_last + 1 messages, at most keep_last non-system
\* messages, or a token cost within the ceiling, the summarization
\* before_llm returns no update whether or not a summary could be
\* generated, and the before_llm hooks leave messages and
\* summarization_count as they were.
C16_NoPass ==
  (pc = "before_llm" /\ NoPassDue) =>
    /\ \A genOk \in BOOLEAN :
         /\ SummarizationBeforeLLM(state, cfg, genOk) = NoUpdate
         /\ LET r == RunBeforeLLM(1, state, cfg, genOk, trace)
            IN /\ r.state.messages = state.messages
               /\ r.state.summarization_count = state.summarization_count
               /\ "summarization_count" \in r.state.keys
                    <=> "summarization_count" \in state.keys

\* over the ceiling, but too short for a pass
C16_Witness ==
  /\ pc = "before_llm"
  /\ Len(state.messages) <= cfg.keep_last + 1
  /\ count_messages_tokens(state.messages) > cfg.max_tokens

\* a task call that passed the gate is at, or past, its execution
Delegating == tc.name = "task" /\ ~tc.skip

\* C17 as stated: a delegation that passed the gate, to a valid type, ends
\* in a success or failure envelope whatever happens (construction, a
\* nested run that returns, a nested run that raises); its execution never
\* raises into the loop.
C17_Original ==
  /\ (pc = "after_tool" /\ Delegating
        /\ tc.args.subagent_type \in AvailableTypes) =>
       result \in {EnvelopeOk, EnvelopeFail}
  /\ \A i \in 1..Len(calls) :
       calls[i].name = "task" => ~ExecRaised(calls[i].id)

\* C18: executing a delegation to a type that is neither general-purpose
\* nor a configured custom type returns the structured error that names
\* the requested type and lists every valid type; the instance cache, the
\* number of instances built, the number of nested runs and every
\* instance's transcript are left as they were.
C18_UnknownType ==
  [][(pc = "execute" /\ Delegating
        /\ tc.args.subagent_type \notin AvailableTypes) =>
       /\ result' = UnknownTypeError(tc.args.subagent_type)
       /\ result'.requested = tc.args.subagent_type
       /\ result'.available = AvailableTypes
       /\ result'.success = "none"
       /\ UNCHANGED <<compiled, constructed, subRuns, subMessages, response_stream>>
       /\ pc' = "after_tool"]_vars

C18_Witness ==
  /\ pc = "after_tool" /\ Delegating
  /\ tc.args.subagent_type = "nope"
  /\ result = UnknownTypeError("nope")
  /\ compiled = {"general-purpose"} /\ subRuns = 1

UserTurnsOf(msgs) == {k \in 1..Len(msgs) : msgs[k].role = "user"}

SystemTurnsOf(msgs) == {k \in 1..Len(msgs) : msgs[k].role = "system"}

\* C19: the middleware has built exactly one instance for every type in
\* its cache and none for any other type; a type not yet delegated to has
\* no instance and no run; every run of a cached type went to the one
\* instance built for it, whose state container was seeded once and holds
\* the task of every delegation to the type, failed runs included.
C19_OneInstancePerType ==
  /\ compiled \subseteq AvailableTypes
  /\ constructed = Cardinality(compiled)
  /\ \A t \in AvailableTypes \ compiled : subMessages[t] = <<>>
  /\ \A t \in compiled :
       /\ SystemTurnsOf(subMessages[t]) = {1}
       /\ UserTurnsOf(subMessages[t]) # {}
  /\ subRuns = Cardinality(UserTurnsOf(subMessages["general-purpose"]))
                 + Cardinality(UserTurnsOf(subMessages["researcher"]))

\* a second delegation to a type whose first run failed
C19_Witness ==
  /\ compiled = {"general-purpose"} /\ constructed = 1 /\ subRuns = 2
  /\ pc = "after_tool" /\ Delegating /\ result = EnvelopeOk
  /\ LET m == subMessages["general-purpose"]
     IN Len(m) = 4 /\ m[2].role = "user" /\ m[3].role = "user"
        /\ m[3].call = tc.id /\ m[2].call # tc.id

\* C20 as stated: at the start of a delegated run the transcript of the
\* sub-agent holds no turn of an earlier delegation, so the transcript an
\* instance holds never contains the turns of two delegations.
C20_Original ==
  \A t \in AvailableTypes :
    \A j, k \in 1..Len(subMessages[t]) :
      (subMessages[t][j].role # "system" /\ subMessages[t][k].role # "system")
        => subMessages[t][j].call = subMessages[t][k].call

\* a step in which a nested agent.run was made
NestedRunStep == subRuns' # subRuns

\* a step of the processing of a task call that passed the gate
DelegationStep == Delegating /\ pc \in {"execute", "after_tool", "append"}

\* C21: a nested run works on the transcript of its own instance and leaves
\* the state container of the parent (messages, todos, files, iteration)
\* and the parent's loop counter as they were; over the whole processing of
\* the delegation the parent's todos, files and iteration stay unchanged
\* and messages changes once, by the tool turn appended for the call.
C21_Isolation ==
  /\ [][NestedRunStep =>
          /\ state' = state /\ iteration' = iteration
          /\ task_service' = task_service
          /\ subMessages'[tc.args.subagent_type]
               # subMessages[tc.args.subagent_type]]_vars
  /\ [][DelegationStep =>
          /\ state'.todos = state.todos /\ state'.files = state.files
          /\ state'.iteration = state.iteration
          /\ \/ state'.messages = state.messages
             \/ /\ pc = "append"
                /\ state'.messages =
                     Append(state.messages, ToolTurn(tc.id, ToolResultText(result)))
             \/ /\ pc = "execute" /\ subRuns' = subRuns
                /\ state'.messages = Append(state.messages, ToolTurn(tc.id, "error"))]_vars

C21_Witness ==
  /\ pc = "tool" /\ Delegating /\ result = EnvelopeOk /\ subRuns = 1
  /\ state.messages[Len(state.messages)] = ToolTurn(tc.id, EnvelopeOk.tag)
  /\ Len(subMessages[tc.args.subagent_type]) = 3
  /\ state.todos # <<>>

\* the model response has been consumed and its assistant turn appended
ResponseConsumed == pc = "after_llm" /\ response_stream # <<>>

\* the ids recorded on the last assistant turn
RecordedCalls == state.messages[Len(state.messages)].calls

\* C22 as stated: the calls recorded and due for execution are those of
\* the final chunk of the stream.
C22_Original ==
  ResponseConsumed =>
    calls = response_stream[Len(response_stream)].tool_calls

\* C22: the calls recorded on the assistant turn and due for execution are
\* those of the last chunk that carried a non-empty tool-call list,
\* whatever earlier chunks carried; there are none exactly when no chunk
\* carried a list.
C22_LastListWins ==
  ResponseConsumed =>
    LET carrying == {k \in 1..Len(response_stream) :
                       response_stream[k].tool_calls # <<>>}
    IN /\ carrying = {} => calls = <<>>
       /\ \A k \in carrying :
            (\A j \in carrying : j <= k) => calls = response_stream[k].tool_calls
       /\ RecordedCalls = [i \in 1..Len(calls) |-> calls[i].id]

C22_Witness ==
  /\ ResponseConsumed /\ Len(response_stream) = 2
  /\ response_stream[1].tool_calls # <<>>
  /\ response_stream[2].tool_calls # <<>>
  /\ response_stream[1].tool_calls # response_stream[2].tool_calls
  /\ calls = response_stream[2].tool_calls

\* the keys of the files dict
PathsOf(files) == {e.path : e \in files}

\* C23: no step removes a path from files, or the files key from the
\* state: a path once present is present in every later state.
C23_FilesNeverShrink ==
  [][/\ PathsOf(state.files) \subseteq PathsOf(state'.files)
     /\ "files" \in state.keys => "files" \in state'.keys]_vars

C23_Witness ==
  /\ pc = "tool" /\ ci > 1
  /\ Cardinality(PathsOf(state.files)) = 2
  /\ \E e \in state.files : e.path = LargePath(calls[ci - 1].id)

\* the first run of a new agent, in which the model's first turn requested
\* one tool whose execution returned a text above the eviction threshold
\* and its second turn requested the completion tool, which was executed
\* and returned
EvictThenComplete ==
  /\ runs = 1 /\ modelCalls = 2 /\ state.iteration = 2
  /\ longTexts = {1}
  /\ Len(state.messages) >= 5
  /\ state.messages[3].calls = <<1>>
  /\ state.messages[5].calls = <<2>>
  /\ calls = <<[id |-> 2, name |-> "completion", args |-> ArgsPlain]>>
  /\ execs[2] = 1
  /\ pc \in {"tool", "loop", "idle"} /\ ci = 2
  /\ result = ToolDict

\* C24: in that run, once the completion call has been processed, done is
\* set with the loop counter at 2, no third model call is made, files holds
\* exactly one entry, the evicted text under the path of the first call,
\* and the tool turn of the first call holds the eviction notice.
C24_EndToEnd ==
  EvictThenComplete =>
    /\ done /\ iteration = 2 /\ iteration <= cfg.max_iterations
    /\ state.files = {[path |-> LargePath(1), content |-> ToolStrBig.tag]}
    /\ state.messages[4] = ToolTurn(1, ToolResultText(EvictionNotice))
    /\ state.messages[6] = ToolTurn(2, ToolResultText(ToolDict))
    /\ Len(state.messages) = 6
    /\ pc = "idle" => outcome = "normal"

C24_Witness == EvictThenComplete /\ pc = "idle" /\ done

\* total length of the text items of a sequence of yielded values
RECURSIVE TextLength(_)
TextLength(items) ==
  IF items = <<>> THEN 0
  ELSE (IF items[1].kind = "text" THEN items[1].val ELSE 0) + TextLength(Tail(items))

\* the notices yielded for tool-call id
NoticesOf(id) ==
  SelectSeq(yielded.stream, LAMBDA x : x.kind \in {"tool", "tool_error"} /\ x.val = id)

\* the run has returned normally
Returned == pc = "idle" /\ runs > 0 /\ outcome = "normal"

\* C25 as stated: the blocking form yields nothing before the end of the
\* run and then exactly one value, the concatenation of the assistant
\* content authored for the task of this run (the text the model streamed
\* in it); the streaming form yields every text chunk as it arrives and
\* one notice for each tool call processed.
C25_Original ==
  /\ ~Returned /\ pc # "idle" => yielded.block = <<>>
  /\ Returned =>
       yielded.block = <<Item("text", TextLength(yielded.stream))>>
  /\ pc = "after_llm" =>
       LET c == SelectSeq(response_stream, LAMBDA x : x.content > 0)
           n == Len(yielded.stream)
       IN /\ n >= Len(c)
          /\ \A i \in 1..Len(c) :
               yielded.stream[n - Len(c) + i] = Item("text", c[i].content)
  /\ pc \in {"tool", "before_tool", "execute", "after_tool", "append"} =>
       \A i \in 1..Len(calls) :
         Len(NoticesOf(calls[i].id)) = IF i < ci THEN 1 ELSE 0

\* the entries of a submitted list that carry an identifier
WithId(todos) == {k \in 1..Len(todos) : todos[k].id # 0}

\* a write_todos call with at least one entry that carries the identifier
\* of a task of the tracker
UpdateTodosCall ==
  /\ tc.name = "write_todos" /\ tc.args.hasTodos
  /\ \E k \in WithId(tc.args.todos) : tc.args.todos[k].id \in TaskIds(task_service)

\* C26: the before_tool hooks of a write_todos call create one task per
\* entry without an identifier and none for an entry that carries the
\* identifier of an existing task; afterwards every such entry is recorded
\* in todos at its position with the identifier it came with, and the
\* task of that identifier has the status of the (last) entry naming it.
C26_UpdateByIdentifier ==
  /\ (pc = "before_tool" /\ UpdateTodosCall) =>
       LET r == RunBeforeTool(1, tc, state, task_service, trace)
           sub == tc.args.todos
       IN /\ ~r.raised
          /\ TaskIds(task_service) \subseteq TaskIds(r.svc)
          /\ Cardinality(r.svc.tasks) =
               Cardinality(task_service.tasks) + Len(sub) - Cardinality(WithId(sub))
  /\ (pc = "execute" /\ UpdateTodosCall) =>
       LET sub == tc.args.todos
           rec == state.todos
       IN /\ Len(rec) = Len(sub)
          /\ \A k \in WithId(sub) :
               /\ rec[k].id = sub[k].id
               /\ rec[k].status = sub[k].status
               /\ (\A j \in WithId(sub) : sub[j].id = sub[k].id => j <= k) =>
                    \E t \in task_service.tasks :
                      t.id = sub[k].id /\ t.status = sub[k].status

C26_Witness ==
  /\ pc = "execute" /\ tc.name = "write_todos" /\ tc.args = ArgsTodosUpdate
  /\ state.todos = ArgsTodosUpdate.todos
  /\ task_service.tasks = {[id |-> 1, status |-> "completed"],
                           [id |-> 2, status |-> "pending"]}

\* middleware lists a caller may supply
CallerMiddlewares == {<<>>, <<"custom">>, Pipeline}

\* the constructor arguments with every default middleware enabled
AllEnabled == [f \in FlagNames |-> TRUE]

\* C27 as stated: with the default middleware enabled construction
\* succeeds and the pipeline is planning, eviction, delegation,
\* summarization followed by the caller's middleware; with delegation and
\* summarization disabled it is planning, eviction and the caller's.
C27_Original ==
  /\ cfg.enable_default_middleware =>
       /\ outcome # "init_error"
       /\ Constructed(cfg).middlewares = Pipeline \o cfg.middlewares
  /\ \A m \in CallerMiddlewares :
       /\ LET a == StatefulAgentInit(AllEnabled, m)
          IN ~a.raised /\ a.middlewares = Pipeline \o m
       /\ LET a == StatefulAgentInit([AllEnabled EXCEPT !.enable_subagents = FALSE,
                                                        !.enable_summarization = FALSE], m)
          IN ~a.raised /\ a.middlewares = <<"todolist", "filesystem">> \o m

\* C28 as stated: for a call that was executed or vetoed without an
\* exception, whatever the kind of the result the after_tool hooks left
\* (record or plain text), the step that follows them appends the tool turn
\* of the call's id whose content is the textual form of that result.
C28_Original ==
  [][pc = "append" =>
       state'.messages =
         Append(state.messages, ToolTurn(tc.id, ToolResultText(result)))]_vars

\* C29 as stated: whatever write_todos calls the model issues, with or
\* without ids on the entries, the ids of the entries of todos are pairwise
\* distinct; todos changes only in the before_tool step of a write_todos
\* call, which never rewrites an id an entry already carries.
C29_Original ==
  /\ [](\A j, k \in 1..Len(state.todos) :
          j # k => state.todos[j].id # state.todos[k].id)
  /\ [][state'.todos # state.todos =>
          /\ pc = "before_tool" /\ tc.name = "write_todos"
          /\ Len(state'.todos) = Len(tc.args.todos)
          /\ \A k \in WithId(tc.args.todos) :
               state'.todos[k].id = tc.args.todos[k].id]_vars

\* the statuses the schema of write_todos allows
StatusEnum == {"pending", "in_progress", "completed"}

\* C30 as stated: every entry recorded in todos has one of the three
\* statuses; a write_todos call whose entries all have one of them is
\* recorded as submitted, whatever status its tasks had before.
C30_Original ==
  /\ \A k \in 1..Len(state.todos) : state.todos[k].status \in StatusEnum
  /\ (/\ pc = "execute" /\ tc.name = "write_todos" /\ tc.args.todos # <<>>
      /\ \A k \in 1..Len(tc.args.todos) : tc.args.todos[k].status \in StatusEnum) =>
       /\ tc.result = TodosRecorded
       /\ Len(state.todos) = Len(tc.args.todos)
       /\ \A k \in 1..Len(state.todos) :
            state.todos[k].status = tc.args.todos[k].status

StackList == cfg.middlewares

WritersIn(mws) == {k \in 1..Len(mws) : MockWrites(mws[k])}

ReadersIn(mws) == {k \in 1..Len(mws) : mws[k] = "mock_reader"}

RaisersIn(mws) == {k \in 1..Len(mws) : mws[k] = "mock_raise"}

Last(S) == CHOOSE k \in S : \A j \in S : j <= k

First(S) == CHOOSE k \in S : \A j \in S : k <= j

HookCalled == runs' = runs + 1

CallOf(hook) == IF hook \in {"before_tool", "after_tool"} THEN StackCall.id ELSE 0

\* the tag of the value a tool method is passed
PassedArg(hook) ==
  CASE hook = "before_tool" -> ArgOf(tc)
    [] hook = "after_tool" -> result.tag
    [] OTHER -> "none"

\* the tag of the value threaded into position k of the chain
ThreadedInto(hook, k) ==
  IF hook \notin {"before_tool", "after_tool"} THEN "none"
  ELSE LET before == {j \in WritersIn(StackList) : j < k}
       IN IF before = {} THEN PassedArg(hook) ELSE StackList[Last(before)]

C33_Original ==
  [][(HookCalled /\ outcome' = "returned" /\ ReadersIn(StackList) # {}) =>
       state'.seen.test = state.test]_vars

\* the parts of the transcript a summarization pass works on
PassSystem(msgs) == IF HasLeadingSystem(msgs) THEN <<msgs[1]>> ELSE <<>>

PassRest(msgs) == IF HasLeadingSystem(msgs) THEN Tail(msgs) ELSE msgs

PassOld(msgs) == SliceButLast(PassRest(msgs), cfg.keep_last)

PassRecent(msgs) == SliceLast(PassRest(msgs), cfg.keep_last)

C35_GateStaysOpen ==
  /\ [][state.todos # <<>> => state'.todos # <<>>]_vars
  /\ []((pc = "before_tool" /\ tc.name = "task" /\ state.todos # <<>>) =>
          LET r == RunBeforeTool(1, tc, state, task_service, trace)
          IN ~r.raised /\ ~r.tc.skip /\ r.state.todos = state.todos)

C35_Witness ==
  /\ runs = 2 /\ pc = "execute" /\ tc.name = "task" /\ ~tc.skip
  /\ state.todos # <<>>
  /\ execs[tc.id] = 0

\* the position of the last assistant turn of the transcript (0: none)
LastAssistant(msgs) ==
  LET A == {k \in 1..Len(msgs) : msgs[k].role = "assistant"}
  IN IF A = {} THEN 0 ELSE CHOOSE k \in A : \A j \in A : j <= k

\* the tool turns that follow position a
ToolTurnsAfter(msgs, a) ==
  SelectSeq(SubSeq(msgs, a + 1, Len(msgs)), LAMBDA m : m.role = "tool")

\* the tool turns appended in the current iteration, in order
AppendedNow ==
  SelectSeq(trace, LAMBDA e : e.ev = "append_tool")

\* C36: when the tool loop of an iteration is over, that is whenever the
\* loop head is reached, a model call is about to be made or the run has
\* ended, the tool turns that follow the last assistant turn of the
\* transcript carry the identifiers of its tool calls, one turn per call,
\* in emitted order; and at the loop head the iteration has appended
\* exactly one tool turn per call of its assistant turn, in emitted order,
\* whether the call was executed, vetoed or ended in an error.
C36_OneTurnPerCall ==
  /\ (pc \in {"loop", "model", "idle"} /\ LastAssistant(state.messages) > 0) =>
       LET a == LastAssistant(state.messages)
           ids == state.messages[a].calls
           after == ToolTurnsAfter(state.messages, a)
       IN /\ Len(after) = Len(ids)
          /\ \A k \in 1..Len(ids) : after[k].tool_call_id = ids[k]
  /\ (pc = "loop" /\ trace # <<>>) =>
       /\ Len(AppendedNow) = Len(calls)
       /\ \A k \in 1..Len(calls) : AppendedNow[k].call = calls[k].id

C36_Witness ==
  /\ pc = "model" /\ iteration = 2 /\ Len(calls) = 2
  /\ calls[1].name = "write_todos" /\ calls[1].args = ArgsTodosEmpty
  /\ calls[2].name = "completion" /\ execs[calls[2].id] = 1
  /\ LET n == Len(state.messages)
     IN /\ state.messages[n - 2].role = "assistant"
        /\ state.messages[n - 1].tool_call_id = calls[1].id
        /\ state.messages[n].tool_call_id = calls[2].id

\* C37 as stated: every tool turn of the transcript comes after an
\* assistant turn of the transcript whose tool calls include its identifier.
C37_Original ==
  \A k \in 1..Len(state.messages) :
    state.messages[k].role = "tool" =>
      \E j \in 1..k - 1 :
        /\ state.messages[j].role = "assistant"
        /\ \E i \in 1..Len(state.messages[j].calls) :
             state.messages[j].calls[i] = state.messages[k].tool_call_id

\* the call in hand got past parsing and the before_tool hooks and is now
\* executed without raising, or skipped
PassesExecution == pc = "execute" /\ pc' = "after_tool"

C39_OneLevel ==
  /\ \A k \in 1..Len(MiddlewaresOf(DefaultAgentKwargs)) :
       MiddlewaresOf(DefaultAgentKwargs)[k] # "subagents"
  /\ "task" \notin RegisteredTools(DefaultAgentKwargs)
  /\ \A t \in AvailableTypes : \A k \in 1..Len(subMessages[t]) :
       subMessages[t][k].role # "nested_run"

C39_Witness ==
  /\ subRuns = 1 /\ pc = "after_tool" /\ tc.name = "task"
  /\ Len(subMessages["general-purpose"]) = 5
  /\ subMessages["general-purpose"][4] = [role |-> "tool_error", call |-> tc.id]


\* the container a flag-guarded statement leaves is the same for both values
\* of the flag
SameContainer(on, off) == on.state = off.state

====
